---- MODULE Spec2Model ----
(***************************************************************************)
(* Rules engine of the Gwent card game (gwent-python): Board, Round,       *)
(* Match, Player and the leader effects, as a state machine driven by the  *)
(* calls of a driver: deck registration (as the UIs do after Match()),     *)
(* Match.start_round, Match.play_card, Match.pass_turn, leader activation. *)
(***************************************************************************)
EXTENDS Integers, Sequences, FiniteSets, TLC

(***************************************************************************)
(* Enumerations (gwent/cards/base_card.py)                                 *)
(***************************************************************************)
MELEE == "melee"
RANGED == "ranged"
SIEGE == "siege"
ALL == "all"
\* target_row=None
NoRow == "none"
\* target_unit=None
NoCard == 0

\* Keys of Board.rows[p], in dict insertion order
RowKeys == <<MELEE, RANGED, SIEGE>>
BoardRows == {MELEE, RANGED, SIEGE}

UNIT == "unit"
WEATHER_T == "weather"
SPECIAL == "special"

TIGHT_BOND == "tight_bond"
MORALE_BOOST == "morale_boost"
MEDIC == "medic"
SPY == "spy"
DECOY == "decoy"
SCORCH == "scorch"
HORN == "horn"
WEATHER == "weather"
HERO == "hero"
MUSTER == "muster"
AVENGER == "avenger"
BERSERKER == "berserker"
MARDROEME == "mardroeme"

\* Board.players, in list order
Players == <<"P1", "P2">>
PlayerIds == {"P1", "P2"}

(***************************************************************************)
(* The card pool the matches are dealt from: one Card value per id.        *)
(* combat_rows = <<>> stands for a plain Card without that attribute,      *)
(* group = "" for a card without meta["group"].                            *)
(***************************************************************************)
MkCard(n, t, r, pw, h, ab, g, cr) ==
    [name |-> n, type |-> t, row |-> r, power |-> pw, hero |-> h,
     abilities |-> ab, group |-> g, combat_rows |-> cr]

Catalog ==
    << MkCard("soldier", UNIT, MELEE, 5, FALSE, {}, "", <<>>),                    \* 1
       MkCard("archer", UNIT, RANGED, 5, FALSE, {}, "", <<>>),                    \* 2
       MkCard("geralt", UNIT, MELEE, 7, TRUE, {}, "", <<>>),                      \* 3
       MkCard("biting frost", WEATHER_T, ALL, 0, FALSE, {WEATHER}, "", <<>>),     \* 4
       MkCard("clear weather", WEATHER_T, ALL, 0, FALSE, {WEATHER}, "", <<>>),    \* 5
       MkCard("scorch", SPECIAL, ALL, 0, FALSE, {SCORCH}, "", <<>>),              \* 6
       MkCard("decoy", SPECIAL, ALL, 0, FALSE, {DECOY}, "", <<>>),                \* 7
       MkCard("mardroeme", SPECIAL, ALL, 0, FALSE, {MARDROEME}, "", <<>>),        \* 8
       MkCard("berserker", UNIT, MELEE, 3, FALSE, {BERSERKER}, "", <<>>),         \* 9
       MkCard("thaler", UNIT, SIEGE, 1, FALSE, {SPY}, "", <<SIEGE>>),             \* 10
       MkCard("field medic", UNIT, SIEGE, 2, FALSE, {MEDIC}, "", <<SIEGE>>),      \* 11
       MkCard("clan member", UNIT, MELEE, 4, FALSE, {MUSTER}, "clan", <<>>),      \* 12
       MkCard("clan member 2", UNIT, MELEE, 3, FALSE, {MUSTER}, "clan", <<>>),    \* 13
       MkCard("kambi", UNIT, MELEE, 5, FALSE, {AVENGER}, "", <<>>),               \* 14
       MkCard("commando", UNIT, MELEE, 2, FALSE, {TIGHT_BOND}, "", <<>>),         \* 15
       MkCard("commando", UNIT, MELEE, 2, FALSE, {TIGHT_BOND}, "", <<>>),         \* 16
       MkCard("banner", UNIT, RANGED, 1, FALSE, {MORALE_BOOST}, "", <<>>),        \* 17
       MkCard("horn", SPECIAL, ALL, 0, FALSE, {HORN}, "", <<>>),                  \* 18
       MkCard("dandelion", UNIT, MELEE, 2, FALSE, {HORN}, "", <<>>),              \* 19
       MkCard("agile unit", UNIT, ALL, 4, FALSE, {}, "", <<MELEE, RANGED>>),      \* 20
       MkCard("raider", UNIT, MELEE, 4, FALSE, {}, "", <<MELEE, RANGED>>),        \* 21
       MkCard("surgeon", UNIT, SIEGE, 6, FALSE, {MEDIC}, "", <<SIEGE>>),          \* 22
       MkCard("scorch", SPECIAL, ALL, 0, FALSE, {SCORCH}, "", <<>>),              \* 23
       MkCard("clear weather", WEATHER_T, ALL, 0, FALSE, {WEATHER}, "", <<>>),    \* 24
       MkCard("ghoul", UNIT, MELEE, 1, FALSE, {MUSTER}, "", <<>>),                \* 25
       MkCard("nekker", UNIT, RANGED, 2, FALSE, {MUSTER}, "ghoul", <<>>),         \* 26
       MkCard("ghoul", UNIT, MELEE, 3, FALSE, {MUSTER}, "", <<>>),                \* 27
       MkCard("impenetrable fog", WEATHER_T, ALL, 0, FALSE, {WEATHER}, "", <<>>), \* 28
       MkCard("decoy", SPECIAL, ALL, 0, FALSE, {DECOY}, "", <<>>),                \* 29
       MkCard("horn", SPECIAL, ALL, 0, FALSE, {HORN}, "", <<>>)                   \* 30
    >>

NumCards == Len(Catalog)
BaseIds == 1..NumCards
\* The Card built by Mardroeme from card i has id "<i>:t": here i + NumCards
TransformedId(i) == i + NumCards
AllIds == 1..(2 * NumCards)
IsTransformed(c) == c > NumCards
OriginOf(c) == IF IsTransformed(c) THEN c - NumCards ELSE c

(***************************************************************************)
(* Card properties (base_card.py).  A transformed Card copies its target's *)
(* fields except id, name, row, power and abilities (board.py 131-142).    *)
(***************************************************************************)
Max(a, b) == IF a >= b THEN a ELSE b
Min(a, b) == IF a <= b THEN a ELSE b

CardName(c) ==
    IF IsTransformed(c) THEN Catalog[OriginOf(c)].name \o " (Transformed)"
    ELSE Catalog[c].name
CardType(c) == Catalog[OriginOf(c)].type
base_power(c) ==
    IF IsTransformed(c) THEN Max(Catalog[OriginOf(c)].power, 8)
    ELSE Catalog[c].power
CardAbilities(c) ==
    IF IsTransformed(c) THEN Catalog[OriginOf(c)].abilities \ {BERSERKER}
    ELSE Catalog[c].abilities
CardGroup(c) == Catalog[OriginOf(c)].group
combat_rows(c) == IF IsTransformed(c) THEN <<>> ELSE Catalog[c].combat_rows
is_unit(c) == CardType(c) = UNIT
is_hero(c) == Catalog[OriginOf(c)].hero \/ HERO \in CardAbilities(c)

\* Sequence helpers: list.remove (first occurrence), membership, filtering
SeqRange(s) == {s[i] : i \in 1..Len(s)}
InSeq(x, s) == \E i \in 1..Len(s) : s[i] = x
IndexOf(x, s) == CHOOSE i \in 1..Len(s) : s[i] = x /\ \A j \in 1..(i - 1) : s[j] # x
RemoveFirst(s, x) ==
    IF InSeq(x, s)
    THEN LET k == IndexOf(x, s)
         IN [i \in 1..(Len(s) - 1) |-> IF i < k THEN s[i] ELSE s[i + 1]]
    ELSE s
Count(x, s) == Cardinality({i \in 1..Len(s) : s[i] = x})

(***************************************************************************)
(* RowState.effective_strength (board.py 42-68).  The four modifiers of    *)
(* the loop body are applied in the order of the code: weather, bond,      *)
(* morale, horn.                                                           *)
(***************************************************************************)
\* _bond_groups().get(name): same-named Tight Bond cards on the row
bond_groups(cards, n) ==
    Cardinality({i \in 1..Len(cards) :
        TIGHT_BOND \in CardAbilities(cards[i]) /\ CardName(cards[i]) = n})

morale_count(cards) ==
    Cardinality({i \in 1..Len(cards) : MORALE_BOOST \in CardAbilities(cards[i])})

\* A faulty variant of the weather step: heroes count as 1 as well
WeatherBaseHeroesToo(weather, c) ==
    IF weather THEN (IF is_unit(c) THEN 1 ELSE 0) ELSE base_power(c)
\* board.py 57-60
WeatherBase(weather, c) ==
    IF weather /\ ~is_hero(c) THEN (IF is_unit(c) THEN 1 ELSE 0) ELSE base_power(c)
\* board.py 61-62
BondStep(cards, c, base) ==
    IF TIGHT_BOND \in CardAbilities(c) THEN base * bond_groups(cards, CardName(c)) ELSE base
\* board.py 63-64
MoraleStep(c, base, morale) ==
    IF morale > 0 /\ MORALE_BOOST \notin CardAbilities(c) /\ is_unit(c)
    THEN base + morale ELSE base
\* A faulty variant of the horn step: heroes are doubled like other units
HornStepHeroesToo(horn, c, base) ==
    IF horn /\ is_unit(c) THEN base * 2 ELSE base
\* board.py 65-66
HornStep(horn, c, base) ==
    IF horn /\ is_unit(c) /\ ~is_hero(c) THEN base * 2 ELSE base

\* A faulty variant of the loop body: the morale is added after the horn
CardValueMoraleLast(cards, weather, horn, c) ==
    MoraleStep(c, HornStep(horn, c, BondStep(cards, c, WeatherBase(weather, c))),
               morale_count(cards))

\* The value the loop body adds to total for card c
card_value(cards, weather, horn, c) ==
    HornStep(horn, c,
        MoraleStep(c, BondStep(cards, c, WeatherBase(weather, c)), morale_count(cards)))

RECURSIVE SumValues(_, _, _, _)
SumValues(cards, weather, horn, i) ==
    IF i > Len(cards) THEN 0
    ELSE card_value(cards, weather, horn, cards[i]) + SumValues(cards, weather, horn, i + 1)

effective_strength(cards, weather, horn) ==
    IF cards = <<>> THEN 0 ELSE SumValues(cards, weather, horn, 1)

\* RowState.preview_added_strength (board.py 33-40)
preview_added_strength(cards, weather, horn, c) ==
    effective_strength(Append(cards, c), weather, horn) - effective_strength(cards, weather, horn)

(***************************************************************************)
(* The Board as a value: rows[p][r] (cards), the rows' horn_active and     *)
(* weather_active flags, active_weather, decks, graveyards; with it the    *)
(* two pieces of per-card state the resolver writes: meta["avenged"] and   *)
(* the row field of the Cards created by Mardroeme.                        *)
(***************************************************************************)
row_strength(b, p, r) == effective_strength(b.rows[p][r], b.wa[p][r], b.horn[p][r])

RECURSIVE SumRows(_, _, _)
SumRows(b, p, k) ==
    IF k > Len(RowKeys) THEN 0 ELSE row_strength(b, p, RowKeys[k]) + SumRows(b, p, k + 1)
total_strength(b, p) == SumRows(b, p, 1)

get_opponent(p) == IF p = "P1" THEN "P2" ELSE "P1"

\* Card.row
CardRow(b, c) == IF IsTransformed(c) THEN b.trow[c] ELSE Catalog[c].row

\* A faulty variant of _sync_weather_flags: only the first player's rows follow
SyncFirstPlayerOnly(b) ==
    [b EXCEPT !.wa = [p \in PlayerIds |->
                         IF p = Players[1] THEN [r \in BoardRows |-> b.aw[r]] ELSE @[p]]]

\* Board._sync_weather_flags (board.py 226-229)
sync_weather_flags(b) ==
    [b EXCEPT !.wa = [p \in PlayerIds |-> [r \in BoardRows |-> b.aw[r]]]]

\* RowState.add (board.py 21-24)
RowAdd(b, p, r, c) ==
    [b EXCEPT !.rows[p][r] = Append(@, c),
              !.horn[p][r] = IF HORN \in CardAbilities(c) THEN TRUE ELSE @]

\* A faulty variant of remove: a card with the Horn ability takes the horn
\* of the row with it
RowRemoveDropsHorn(b, p, r, c) ==
    [b EXCEPT !.rows[p][r] = RemoveFirst(@, c),
              !.horn[p][r] = IF HORN \in CardAbilities(c) /\ InSeq(c, b.rows[p][r]) THEN FALSE ELSE @]

\* RowState.remove (board.py 26-31)
RowRemove(b, p, r, c) == [b EXCEPT !.rows[p][r] = RemoveFirst(@, c)]

\* the name mapping of Board._apply_weather (board.py 211-217)
WeatherRows(n) ==
    CASE n = "biting frost" -> {MELEE}
      [] n = "impenetrable fog" -> {RANGED}
      [] n = "torrential rain" -> {SIEGE}
      [] n = "skellige storm" -> {MELEE, RANGED, SIEGE}
      [] OTHER -> {}
\* A faulty variant: Clear Weather is looked up in the mapping like the
\* other weather cards, where it has no rows
ApplyWeatherByMapping(b, c) ==
    sync_weather_flags(
        [b EXCEPT !.aw = [r \in BoardRows |->
                             IF r \in WeatherRows(CardName(c)) THEN TRUE ELSE @[r]]])
\* Board._apply_weather (board.py 209-224)
apply_weather(b, c) ==
    sync_weather_flags(
        IF CardName(c) = "clear weather"
        THEN [b EXCEPT !.aw = [r \in BoardRows |-> FALSE]]
        ELSE [b EXCEPT !.aw = [r \in BoardRows |->
                                  IF r \in WeatherRows(CardName(c)) THEN TRUE ELSE @[r]]])

\* Board._best_row_for_unit (board.py 231-243): first row of the choices
\* with the largest preview gain
RECURSIVE BestRowScan(_, _, _, _, _, _, _)
BestRowNote(b, p, c, choices, i, best_row, best_gain, gain) ==
    IF gain > best_gain
    THEN BestRowScan(b, p, c, choices, i + 1, choices[i], gain)
    ELSE BestRowScan(b, p, c, choices, i + 1, best_row, best_gain)
BestRowScan(b, p, c, choices, i, best_row, best_gain) ==
    IF i > Len(choices) THEN best_row
    ELSE BestRowNote(b, p, c, choices, i, best_row, best_gain,
            preview_added_strength(b.rows[p][choices[i]], b.wa[p][choices[i]],
                                   b.horn[p][choices[i]], c))
BestRowChoices(b, c) == IF combat_rows(c) # <<>> THEN combat_rows(c) ELSE <<CardRow(b, c)>>
best_row_for_unit(b, p, c) ==
    BestRowScan(b, p, c, BestRowChoices(b, c), 1, BestRowChoices(b, c)[1], -1000000000)

\* "if getattr(card, 'combat_rows', None) and chosen_row == Row.ALL"
\* (board.py 152-153, 169-170, 191-192)
ResolveRow(b, p, c, chosen_row) ==
    IF combat_rows(c) # <<>> /\ chosen_row = ALL THEN best_row_for_unit(b, p, c) ELSE chosen_row

(***************************************************************************)
(* Scorch (board.py 245-269) and the on-death handler (board.py 294-306)   *)
(***************************************************************************)
\* A faulty variant of the handler: the avenged mark is not looked at
OnUnitRemovedEveryTime(b, p, c, r) ==
    IF AVENGER \in CardAbilities(c)
    THEN sync_weather_flags(
             RowAdd([b EXCEPT !.avenged = @ \cup {c},
                              !.gy[p] = RemoveFirst(Append(@, c), c)], p, r, c))
    ELSE [b EXCEPT !.gy[p] = Append(@, c)]

\* Board._on_unit_removed
on_unit_removed(b, p, c, r) ==
    IF AVENGER \in CardAbilities(c) /\ c \notin b.avenged
    THEN sync_weather_flags(
             RowAdd([b EXCEPT !.avenged = @ \cup {c},
                              !.gy[p] = RemoveFirst(Append(@, c), c)], p, r, c))
    ELSE [b EXCEPT !.gy[p] = Append(@, c)]

\* A faulty variant of the victim bookkeeping: a tie with the highest value
\* is not recorded, so only the first of the strongest units is destroyed
ScorchNoteFirstOnly(acc, p, r, c, value) ==
    IF value > acc.highest
    THEN [acc EXCEPT !.highest = value, !.victims = <<(<<c, p, r>>)>>]
    ELSE acc

\* board.py 259-265: acc = [cards, highest, victims]; a victim is <<card, player, row>>
ScorchNote(acc, p, r, c, value) ==
    IF value > acc.highest
    THEN [acc EXCEPT !.highest = value, !.victims = <<(<<c, p, r>>)>>]
    ELSE IF value = acc.highest /\ value > 0
    THEN [acc EXCEPT !.victims = Append(@, <<c, p, r>>)]
    ELSE acc

\* A faulty variant of the scan: only the first player's rows are looked at
PairPlayerFirstOnly(k) == Players[1]

\* board.py 254-258: the value of c, and c moved to the front of the row
ScorchVisit(acc, weather, horn, p, r, c) ==
    ScorchNote([acc EXCEPT !.cards = <<c>> \o RemoveFirst(@, c)], p, r, c,
               effective_strength(acc.cards, weather, horn)
                   - effective_strength(RemoveFirst(acc.cards, c), weather, horn))

\* The inner loop of _apply_scorch over one row: the loop runs over the
\* list it rearranges (remove(c), insert(0, c)), so it is followed by index
RECURSIVE ScorchScanRow(_, _, _, _, _, _)
ScorchScanRow(acc, weather, horn, p, r, i) ==
    IF i > Len(acc.cards) THEN acc
    ELSE IF ~is_unit(acc.cards[i]) \/ is_hero(acc.cards[i])
    THEN ScorchScanRow(acc, weather, horn, p, r, i + 1)
    ELSE ScorchScanRow(ScorchVisit(acc, weather, horn, p, r, acc.cards[i]),
                       weather, horn, p, r, i + 1)

\* The two outer loops: players in Board.players order, rows in dict order;
\* k runs over the six (player, row) pairs.  st = [b, highest, victims]
PairPlayer(k) == Players[((k - 1) \div 3) + 1]
PairRow(k) == RowKeys[((k - 1) % 3) + 1]
ScorchRowDone(st, p, r, acc) ==
    [b |-> [st.b EXCEPT !.rows[p][r] = acc.cards],
     highest |-> acc.highest, victims |-> acc.victims]
RECURSIVE ScorchScan(_, _)
ScorchScan(st, k) ==
    IF k > 6 THEN st
    ELSE ScorchScan(
            ScorchRowDone(st, PairPlayer(k), PairRow(k),
                ScorchScanRow([cards |-> st.b.rows[PairPlayer(k)][PairRow(k)],
                               highest |-> st.highest, victims |-> st.victims],
                              st.b.wa[PairPlayer(k)][PairRow(k)],
                              st.b.horn[PairPlayer(k)][PairRow(k)],
                              PairPlayer(k), PairRow(k), 1)),
            k + 1)

\* The removal loop (board.py 266-269)
RECURSIVE ScorchRemove(_, _, _)
ScorchRemove(b, victims, i) ==
    IF i > Len(victims) THEN b
    ELSE IF InSeq(victims[i][1], b.rows[victims[i][2]][victims[i][3]])
    THEN ScorchRemove(
            on_unit_removed(RowRemove(b, victims[i][2], victims[i][3], victims[i][1]),
                            victims[i][2], victims[i][1], victims[i][3]),
            victims, i + 1)
    ELSE ScorchRemove(b, victims, i + 1)

ScorchFinish(st) == ScorchRemove(st.b, st.victims, 1)
apply_scorch(b) == ScorchFinish(ScorchScan([b |-> b, highest |-> 0, victims |-> <<>>], 1))

(***************************************************************************)
(* Board.play_card (board.py 95-207).  The result is [b, err, ev, placed]: *)
(* the board after the call, the exception raised ("" when it returns),    *)
(* the events record, and whether the call reached the Muster step.        *)
(***************************************************************************)
NoEvents == [decoy_returned |-> NoCard, resurrected |-> NoCard,
             spy_played |-> NoCard, transformed |-> NoCard]

ERR_NONE == ""
ERR_NO_ROUND == "RuntimeError: No active round"
ERR_NOT_IN_HAND == "ValueError: list.remove(x): x not in list"
ERR_DECOY_TARGET == "ValueError: Decoy requires target_unit"
ERR_MARDROEME_TARGET == "ValueError: Mardroeme requires target_unit"
ERR_INVALID_ROW == "ValueError: Invalid row"
ERR_KEY == "KeyError"
ERR_ATTR == "AttributeError: 'Player' object has no attribute 'add_to_hand'"

Ret(b, ev) == [b |-> b, err |-> ERR_NONE, ev |-> ev, placed |-> FALSE]
Placed(b, ev) == [b |-> b, err |-> ERR_NONE, ev |-> ev, placed |-> TRUE]
Raise(b, e) == [b |-> b, err |-> e, ev |-> NoEvents, placed |-> FALSE]

\* The rows of player p that hold card t, in dict order
RowsHolding(b, p, t) == SelectSeq(RowKeys, LAMBDA r : InSeq(t, b.rows[p][r]))

\* Decoy branch (board.py 109-120); found = the rows holding the target
DecoyOn(b, p, c, chosen_row, target_unit, found) ==
    IF found = <<>> THEN Ret(b, NoEvents)
    ELSE Ret(RowAdd(RowRemove(b, p, found[1], target_unit), p,
                    IF chosen_row \in BoardRows THEN chosen_row ELSE found[1], c),
             [NoEvents EXCEPT !.decoy_returned = target_unit])
PlayDecoy(b, p, c, chosen_row, target_unit) ==
    IF target_unit = NoCard THEN Raise(b, ERR_DECOY_TARGET)
    ELSE DecoyOn(b, p, c, chosen_row, target_unit, RowsHolding(b, p, target_unit))

\* A faulty variant of the transformation: the target stays on its row
TransformKeepsTarget(b, p, r, target_unit) ==
    RowAdd([b EXCEPT !.trow[TransformedId(target_unit)] = r], p, r, TransformedId(target_unit))

\* Mardroeme branch (board.py 122-148)
Transform(b, p, r, target_unit) ==
    RowAdd([RowRemove(b, p, r, target_unit)
               EXCEPT !.trow[TransformedId(target_unit)] = r,
                      !.avenged = IF target_unit \in b.avenged
                                  THEN @ \cup {TransformedId(target_unit)} ELSE @],
           p, r, TransformedId(target_unit))
MardroemeOn(b, p, c, target_unit, found) ==
    IF found # <<>> /\ BERSERKER \in CardAbilities(target_unit)
    THEN Ret(sync_weather_flags([Transform(b, p, found[1], target_unit)
                                    EXCEPT !.gy[p] = Append(@, c)]),
             [NoEvents EXCEPT !.transformed = TransformedId(target_unit)])
    ELSE Ret(sync_weather_flags([b EXCEPT !.gy[p] = Append(@, c)]), NoEvents)
PlayMardroeme(b, p, c, target_unit) ==
    IF target_unit = NoCard THEN Raise(b, ERR_MARDROEME_TARGET)
    ELSE MardroemeOn(b, p, c, target_unit, RowsHolding(b, p, target_unit))

\* Spy branch (board.py 150-159)
SpyOn(b, opp, c, chosen_row) ==
    IF chosen_row \notin BoardRows THEN Raise(b, ERR_INVALID_ROW)
    ELSE Ret(sync_weather_flags(RowAdd(b, opp, chosen_row, c)),
             [NoEvents EXCEPT !.spy_played = c])
PlaySpy(b, p, c, chosen_row) ==
    SpyOn(b, get_opponent(p), c, ResolveRow(b, get_opponent(p), c, chosen_row))

\* A faulty variant of the Horn special: the horn sounds on the same row
\* of both players
PlayHornBothSides(b, p, c, chosen_row) ==
    IF chosen_row \notin BoardRows THEN Raise(b, ERR_INVALID_ROW)
    ELSE Ret([sync_weather_flags([b EXCEPT !.horn = [q \in PlayerIds |->
                                                 [b.horn[q] EXCEPT ![chosen_row] = TRUE]]])
                 EXCEPT !.gy[p] = Append(@, c)], NoEvents)

\* Horn special branch (board.py 161-167)
PlayHorn(b, p, c, chosen_row) ==
    IF chosen_row \notin BoardRows THEN Raise(b, ERR_INVALID_ROW)
    ELSE Ret([sync_weather_flags([b EXCEPT !.horn[p][chosen_row] = TRUE])
                 EXCEPT !.gy[p] = Append(@, c)], NoEvents)

\* A faulty variant of Medic's choice: heroes are candidates too
RECURSIVE MedicScanWithHeroes(_, _, _, _)
MedicScanWithHeroes(gy, i, best_score, res) ==
    IF i > Len(gy) THEN res
    ELSE IF is_unit(gy[i]) /\ base_power(gy[i]) > best_score
    THEN MedicScanWithHeroes(gy, i + 1, base_power(gy[i]), gy[i])
    ELSE MedicScanWithHeroes(gy, i + 1, best_score, res)

\* Medic's choice (board.py 178-186): the first graveyard card with the
\* largest base power among the non-hero units; NoCard when there is none
RECURSIVE MedicScan(_, _, _, _)
MedicScan(gy, i, best_score, res) ==
    IF i > Len(gy) THEN res
    ELSE IF is_unit(gy[i]) /\ ~is_hero(gy[i]) /\ base_power(gy[i]) > best_score
    THEN MedicScan(gy, i + 1, base_power(gy[i]), gy[i])
    ELSE MedicScan(gy, i + 1, best_score, res)
MedicChoice(gy) == MedicScan(gy, 1, -1, NoCard)

\* A faulty variant of the resurrection: a resurrected Medic resurrects in turn
SecondResurrection(b2, p, second) ==
    IF second = NoCard \/ CardRow(b2, second) \notin BoardRows THEN b2
    ELSE RowAdd([b2 EXCEPT !.gy[p] = RemoveFirst(@, second)], p, CardRow(b2, second), second)
ResurrectOnChained(b1, p, res, res_row) ==
    IF res_row \notin BoardRows THEN Raise(b1, ERR_KEY)
    ELSE Placed(IF MEDIC \in CardAbilities(res)
                THEN SecondResurrection(RowAdd(b1, p, res_row, res), p, MedicChoice(b1.gy[p]))
                ELSE RowAdd(b1, p, res_row, res),
                [NoEvents EXCEPT !.resurrected = res])

\* Medic step (board.py 177-194); b1 = the board with res out of the graveyard
ResurrectOn(b1, p, res, res_row) ==
    IF res_row \notin BoardRows THEN Raise(b1, ERR_KEY)
    ELSE Placed(RowAdd(b1, p, res_row, res), [NoEvents EXCEPT !.resurrected = res])
Resurrect(b, p, res) ==
    IF res = NoCard THEN Placed(b, NoEvents)
    ELSE ResurrectOn([b EXCEPT !.gy[p] = RemoveFirst(@, res)], p, res,
                     ResolveRow(b, p, res, CardRow(b, res)))
MedicStep(b, p, c) ==
    IF MEDIC \in CardAbilities(c) /\ is_unit(c)
    THEN Resurrect(b, p, MedicChoice(b.gy[p]))
    ELSE Placed(b, NoEvents)

\* Placement of a unit and the Medic step (board.py 168-194)
PlaceUnit(b, p, c, chosen_row) ==
    IF chosen_row \notin BoardRows THEN Raise(b, ERR_INVALID_ROW)
    ELSE MedicStep(sync_weather_flags(RowAdd(b, p, chosen_row, c)), p, c)
PlayUnit(b, p, c, chosen_row) == PlaceUnit(b, p, c, ResolveRow(b, p, c, chosen_row))

\* "chosen_row = target_row or card.row" (board.py 97)
ChosenRow(b, c, target_row) == IF target_row # NoRow THEN target_row ELSE CardRow(b, c)

\* The dispatch of one play_card call up to the Muster step
PlayOne(b, p, c, target_row, target_unit) ==
    IF WEATHER \in CardAbilities(c)
       THEN Ret([apply_weather(b, c) EXCEPT !.gy[p] = Append(@, c)], NoEvents)
    ELSE IF SCORCH \in CardAbilities(c) /\ ~is_unit(c)
       THEN Ret([apply_scorch(b) EXCEPT !.gy[p] = Append(@, c)], NoEvents)
    ELSE IF DECOY \in CardAbilities(c) /\ ~is_unit(c)
       THEN PlayDecoy(b, p, c, ChosenRow(b, c, target_row), target_unit)
    ELSE IF MARDROEME \in CardAbilities(c) /\ ~is_unit(c)
       THEN PlayMardroeme(b, p, c, target_unit)
    ELSE IF SPY \in CardAbilities(c) /\ is_unit(c)
       THEN PlaySpy(b, p, c, ChosenRow(b, c, target_row))
    ELSE IF HORN \in CardAbilities(c) /\ ~is_unit(c)
       THEN PlayHorn(b, p, c, ChosenRow(b, c, target_row))
    ELSE PlayUnit(b, p, c, ChosenRow(b, c, target_row))

\* Muster (board.py 196-206): the deck cards of the group, in deck order
MusterKey(c) == IF CardGroup(c) # "" THEN CardGroup(c) ELSE CardName(c)
\* A faulty variant of the pull: the deck cards are matched by their name
MusterPullByName(deck, c) ==
    SelectSeq(deck, LAMBDA d : CardName(d) = CardName(c) /\ is_unit(d))
MusterPull(deck, c) ==
    SelectSeq(deck, LAMBDA d : CardGroup(d) = MusterKey(c) /\ is_unit(d))
RECURSIVE RemoveEach(_, _, _)
RemoveEach(deck, pulled, i) ==
    IF i > Len(pulled) THEN deck ELSE RemoveEach(RemoveFirst(deck, pulled[i]), pulled, i + 1)

\* The nested plays, each with target_row=None and suppress_muster=True;
\* an exception of a nested play ends the loop and is raised to the caller
RECURSIVE MusterPlay(_, _, _, _)
\* A faulty variant of the loop: a card that has Muster is played once more
MusterNextRepeats(r, p, to_play, i) ==
    IF r.err # ERR_NONE THEN [b |-> r.b, err |-> r.err]
    ELSE IF MUSTER \in CardAbilities(to_play[i])
    THEN MusterPlay(RowAdd(r.b, p, CardRow(r.b, to_play[i]), to_play[i]), p, to_play, i + 1)
    ELSE MusterPlay(r.b, p, to_play, i + 1)
MusterNext(r, p, to_play, i) ==
    IF r.err # ERR_NONE THEN [b |-> r.b, err |-> r.err]
    ELSE MusterPlay(r.b, p, to_play, i + 1)
MusterPlay(b, p, to_play, i) ==
    IF i > Len(to_play) THEN [b |-> b, err |-> ERR_NONE]
    ELSE MusterNext(PlayOne(b, p, to_play[i], NoRow, NoCard), p, to_play, i)

MusterDone(first, m) == [b |-> m.b, err |-> m.err, ev |-> first.ev, placed |-> TRUE]
MusterRun(first, p, to_play) ==
    MusterDone(first, MusterPlay([first.b EXCEPT !.decks[p] = RemoveEach(@, to_play, 1)],
                                 p, to_play, 1))
MusterStep(first, p, c) ==
    IF first.err # ERR_NONE \/ ~first.placed \/ MUSTER \notin CardAbilities(c)
    THEN first
    ELSE MusterRun(first, p, MusterPull(first.b.decks[p], c))

play_card(b, p, c, target_row, target_unit) ==
    MusterStep(PlayOne(b, p, c, target_row, target_unit), p, c)

(***************************************************************************)
(* Bounds of the model                                                     *)
(***************************************************************************)
\* calls on a Match are followed only while every wins counter is below this
MaxWins == 3

\* The target_row arguments the driver passes
TargetRows == {NoRow, RANGED, ALL}

(***************************************************************************)
(* The deals: hand and Player.deck of both players as the driver builds    *)
(* them before Match(players)                                              *)
(***************************************************************************)
MkDeal(h1, d1, l1, h2, d2, l2) ==
    [hand |-> [p \in PlayerIds |-> IF p = "P1" THEN h1 ELSE h2],
     deck |-> [p \in PlayerIds |-> IF p = "P1" THEN d1 ELSE d2],
     leader |-> [p \in PlayerIds |-> IF p = "P1" THEN l1 ELSE l2]]

\* A leader's ability text, given by the substrings that activate_leader
\* looks for and the text contains; NoLeader: the player has no leader card
NoLeader == {"none"}
Unrecognized == {}

Deals ==
    { MkDeal(<<1, 6>>, <<>>, {"clear", "weather"}, <<2, 14>>, <<>>, Unrecognized),
      MkDeal(<<7, 9>>, <<>>, NoLeader, <<8, 1>>, <<>>, NoLeader),
      MkDeal(<<12, 10>>, <<13>>, NoLeader, <<11>>, <<>>, NoLeader),
      MkDeal(<<4>>, <<>>, {"impenetrable fog"}, <<15>>, <<>>, {"double", "melee"}),
      MkDeal(<<15, 16>>, <<>>, NoLeader, <<6, 1>>, <<>>, NoLeader),
      MkDeal(<<18, 3>>, <<>>, NoLeader, <<4, 20>>, <<>>, NoLeader),
      MkDeal(<<10>>, <<1, 2>>, NoLeader, <<>>, <<11>>, NoLeader),
      MkDeal(<<>>, <<>>, NoLeader, <<>>, <<>>, NoLeader) }

VARIABLES
    hand,            \* Player.hand, per player id
    deck,            \* Player.deck
    passed,          \* Player.passed
    leader_used,     \* Player.leader_used
    rows,            \* Board.rows[p][r].cards
    horn_active,     \* Board.rows[p][r].horn_active
    weather_active,  \* Board.rows[p][r].weather_active
    active_weather,  \* Board.active_weather[r]
    decks,           \* Board.decks
    graveyards,      \* Board.graveyards
    avenged,         \* the cards whose meta["avenged"] is set
    trow,            \* the row field of the Cards created by Mardroeme
    round_number,    \* Match.round_number
    wins,            \* Match.wins
    lives,           \* Match.lives
    has_round,       \* Match.current_round is not None
    turn_index,      \* current_round.turn_index
    finished,        \* current_round.finished
    deal,            \* the hands, decks and leaders the match was built from
    last             \* the last call of the driver and what it did

vars == <<hand, deck, passed, leader_used, deal, rows, horn_active, weather_active, active_weather,
          decks, graveyards, avenged, trow, round_number, wins, lives,
          has_round, turn_index, finished, last>>

\* everything but the record of the last call
engine == <<hand, deck, passed, leader_used, rows, horn_active, weather_active, active_weather,
            decks, graveyards, avenged, trow, round_number, wins, lives,
            has_round, turn_index, finished>>

BerserkerIds == {i \in BaseIds : BERSERKER \in Catalog[i].abilities}
TransformedIds == {TransformedId(i) : i \in BerserkerIds}

Board ==
    [rows |-> rows, horn |-> horn_active, wa |-> weather_active, aw |-> active_weather,
     decks |-> decks, gy |-> graveyards, avenged |-> avenged, trow |-> trow]

\* The whole Match as a value
MatchState ==
    [hand |-> hand, deck |-> deck, passed |-> passed, b |-> Board,
     round_number |-> round_number, wins |-> wins, lives |-> lives,
     has_round |-> has_round, turn_index |-> turn_index, finished |-> finished]

Install(m) ==
    /\ hand' = m.hand
    /\ deck' = m.deck
    /\ passed' = m.passed
    /\ rows' = m.b.rows
    /\ horn_active' = m.b.horn
    /\ weather_active' = m.b.wa
    /\ active_weather' = m.b.aw
    /\ decks' = m.b.decks
    /\ graveyards' = m.b.gy
    /\ avenged' = m.b.avenged
    /\ trow' = m.b.trow
    /\ round_number' = m.round_number
    /\ wins' = m.wins
    /\ lives' = m.lives
    /\ has_round' = m.has_round
    /\ turn_index' = m.turn_index
    /\ finished' = m.finished
    /\ deal' = deal

NoCall == [op |-> "init", player |-> "", card |-> NoCard, row |-> NoRow, target |-> NoCard,
           err |-> ERR_NONE,
           round_end |-> FALSE, winner |-> "", started |-> FALSE, applied |-> FALSE]

\* Match.__init__ (match.py 13-19), Board.__init__ (board.py 74-84), Player fields
Init ==
    \E d \in Deals :
        /\ deal = d
        /\ hand = d.hand
        /\ deck = d.deck
        /\ passed = [p \in PlayerIds |-> FALSE]
        /\ leader_used = [p \in PlayerIds |-> FALSE]
        /\ rows = [p \in PlayerIds |-> [r \in BoardRows |-> <<>>]]
        /\ horn_active = [p \in PlayerIds |-> [r \in BoardRows |-> FALSE]]
        /\ weather_active = [p \in PlayerIds |-> [r \in BoardRows |-> FALSE]]
        /\ active_weather = [r \in BoardRows |-> FALSE]
        /\ decks = [p \in PlayerIds |-> <<>>]
        /\ graveyards = [p \in PlayerIds |-> <<>>]
        /\ avenged = {}
        /\ trow = [t \in TransformedIds |-> NoRow]
        /\ round_number = 0
        /\ wins = [p \in PlayerIds |-> 0]
        /\ lives = [p \in PlayerIds |-> 2]
        /\ has_round = FALSE
        /\ turn_index = 0
        /\ finished = FALSE
        /\ last = NoCall

(***************************************************************************)
(* Player (player.py)                                                      *)
(***************************************************************************)
\* Player.draw (player.py 20-27)
\* A faulty variant of the draw: the cards drawn stay on the deck
DrawKeepsDeck(m, p, count) ==
    [m EXCEPT !.hand[p] = @ \o SubSeq(m.deck[p], 1, Min(count, Len(m.deck[p])))]
draw(m, p, count) ==
    [m EXCEPT !.hand[p] = @ \o SubSeq(m.deck[p], 1, Min(count, Len(m.deck[p]))),
              !.deck[p] = SubSeq(@, Min(count, Len(@)) + 1, Len(@))]

(***************************************************************************)
(* Round (round.py)                                                        *)
(***************************************************************************)
\* the condition of Round._check_auto_end (round.py 60)
AllDone(m) == \A p \in PlayerIds : m.passed[p] \/ m.hand[p] = <<>>

\* Round._check_auto_end (round.py 59-61)
check_auto_end(m) == IF AllDone(m) THEN [m EXCEPT !.finished = TRUE] ELSE m

\* A faulty variant of the rotation: the turn goes to the other player
\* whether or not that player can act
NextPlayerAlways(m) == IF m.finished THEN m ELSE [m EXCEPT !.turn_index = (m.turn_index + 1) % 2]

\* Round.next_player (round.py 23-37), for the two players of a Match: the
\* loop looks at the other player and, if that one cannot act, comes back
OtherIndex(m) == (m.turn_index + 1) % 2
next_player(m) ==
    IF m.finished THEN m
    ELSE IF ~m.passed[Players[OtherIndex(m) + 1]] /\ m.hand[Players[OtherIndex(m) + 1]] # <<>>
    THEN [m EXCEPT !.turn_index = OtherIndex(m)]
    ELSE m

\* Round.winner (round.py 63-70): a player id, or "" for None
Compare(s1, s2) == IF s1 = s2 THEN "" ELSE IF s1 > s2 THEN Players[1] ELSE Players[2]
round_winner(m) ==
    IF ~m.finished THEN ""
    ELSE Compare(total_strength(m.b, Players[1]), total_strength(m.b, Players[2]))

\* Round.play_card (round.py 40-51) after play_from_hand: m1 = the match
\* with the card out of the hand, res = what Board.play_card returned.
\* Player has no method add_to_hand (player.py 11-41), so the call of
\* round.py 49 raises AttributeError and the rest of play_card is not run
\* A faulty variant of the Spy reward: the opponent draws the two cards
SpyDrawForOpponent(m, p, ev) ==
    IF ev.spy_played # NoCard THEN draw(m, get_opponent(p), 2) ELSE m
SpyDraw(m, p, ev) == IF ev.spy_played # NoCard THEN draw(m, p, 2) ELSE m
DecoyReturn(m, p, ev) ==
    IF ev.decoy_returned # NoCard
    THEN [m |-> m, err |-> ERR_ATTR]
    ELSE [m |-> next_player(check_auto_end(m)), err |-> ERR_NONE]
AfterBoardPlay(m1, p, res) ==
    IF res.err # ERR_NONE THEN [m |-> [m1 EXCEPT !.b = res.b], err |-> res.err]
    ELSE DecoyReturn(SpyDraw([m1 EXCEPT !.b = res.b], p, res.ev), p, res.ev)

\* Player.play_from_hand (player.py 29-31)
play_from_hand(m, p, c) == [m EXCEPT !.hand[p] = RemoveFirst(@, c)]

\* Round.play_card: [m, err]
round_play_card(m, p, c, target_row, target_unit) ==
    IF ~InSeq(c, m.hand[p]) THEN [m |-> m, err |-> ERR_NOT_IN_HAND]
    ELSE AfterBoardPlay(play_from_hand(m, p, c), p,
                        play_card(m.b, p, c, target_row, target_unit))

\* Round.pass_turn (round.py 53-57)
PassNext(m) == IF ~m.finished THEN next_player(m) ELSE m
round_pass_turn(m, p) == PassNext(check_auto_end([m EXCEPT !.passed[p] = TRUE]))

(***************************************************************************)
(* Match (match.py)                                                        *)
(***************************************************************************)
\* Board.cleanup_after_round (board.py 283-292)
\* A faulty variant of the cleanup: the horn flags stay
CleanupKeepsHorn(b) ==
    [b EXCEPT !.gy = [p \in PlayerIds |->
                         b.gy[p] \o b.rows[p][MELEE] \o b.rows[p][RANGED] \o b.rows[p][SIEGE]],
              !.rows = [p \in PlayerIds |-> [r \in BoardRows |-> <<>>]],
              !.wa = [p \in PlayerIds |-> [r \in BoardRows |-> FALSE]]]
RowsOf(b, p) == b.rows[p][MELEE] \o b.rows[p][RANGED] \o b.rows[p][SIEGE]
cleanup_after_round(b) ==
    [b EXCEPT !.gy = [p \in PlayerIds |-> b.gy[p] \o RowsOf(b, p)],
              !.rows = [p \in PlayerIds |-> [r \in BoardRows |-> <<>>]],
              !.horn = [p \in PlayerIds |-> [r \in BoardRows |-> FALSE]],
              !.wa = [p \in PlayerIds |-> [r \in BoardRows |-> FALSE]]]

\* Match.start_round (match.py 21-27) with Round.__init__ (round.py 13-17)
start_round(m) ==
    [m EXCEPT !.passed = [p \in PlayerIds |-> FALSE],
              !.b = sync_weather_flags([m.b EXCEPT !.aw = [r \in BoardRows |-> FALSE]]),
              !.round_number = @ + 1,
              !.has_round = TRUE,
              !.turn_index = 0,
              !.finished = FALSE]

\* A faulty variant of the crediting: the life loop outside "if winner", so
\* that a draw costs every player a life
CreditDrawCostsLife(m, w) ==
    IF w = "" THEN [m EXCEPT !.lives = [p \in PlayerIds |-> Max(0, m.lives[p] - 1)]]
    ELSE [m EXCEPT !.wins[w] = @ + 1,
                   !.lives = [p \in PlayerIds |->
                                 IF p # w THEN Max(0, m.lives[p] - 1) ELSE m.lives[p]]]

\* the crediting of a finished round (match.py 43-49); w = Round.winner()
credit(m, w) ==
    IF w = "" THEN m
    ELSE [m EXCEPT !.wins[w] = @ + 1,
                   !.lives = [p \in PlayerIds |->
                                 IF p # w THEN Max(0, m.lives[p] - 1) ELSE m.lives[p]]]
\* A faulty variant of the crediting: the winner is read after the cleanup
CreditAfterCleanup(m) == credit(m, round_winner([m EXCEPT !.b = cleanup_after_round(m.b)]))
credit_round(m) == credit(m, round_winner(m))

\* A faulty variant of the test: the round count compared one too high
MatchOverLate(m) == (\E p \in PlayerIds : m.wins[p] >= 2) \/ m.round_number >= 4

\* the test that ends the match (match.py 50)
match_over(m) == (\E p \in PlayerIds : m.wins[p] >= 2) \/ m.round_number >= 3

\* match.py 50-57: m1 = the match with the round credited
CleanBoard(m) == [m EXCEPT !.b = cleanup_after_round(m.b)]
next_round(m1) ==
    IF match_over(m1) THEN m1
    ELSE start_round(CleanBoard(draw(draw(m1, Players[1], 1), Players[2], 1)))

\* A faulty variant of _check_round_end: the round is credited and left
\* as it is
CreditOnly(m) == IF ~(m.has_round /\ m.finished) THEN m ELSE credit_round(m)

\* Match._check_round_end (match.py 41-57)
check_round_end(m) ==
    IF ~(m.has_round /\ m.finished) THEN m ELSE next_round(credit_round(m))

\* Match.match_winner (match.py 59-63): a player id, or "" for None
match_winner(m) ==
    IF m.wins[Players[1]] >= 2 THEN Players[1]
    ELSE IF m.wins[Players[2]] >= 2 THEN Players[2] ELSE ""

(***************************************************************************)
(* Leader effects (effects.py).  t is the set of the substrings looked for *)
(* that the lowercased ability text contains.                              *)
(***************************************************************************)
\* effects.clear_weather (effects.py 7-10)
clear_weather(b) == sync_weather_flags([b EXCEPT !.aw = [r \in BoardRows |-> FALSE]])

\* effects.apply_weather (effects.py 13-23)
leader_apply_weather(b, n) ==
    sync_weather_flags([b EXCEPT !.aw = [r \in BoardRows |->
                                            IF r \in WeatherRows(n) THEN TRUE ELSE @[r]]])

Doubles(t) == "double" \in t \/ "commander" \in t

\* effects.activate_leader (effects.py 26-57): [b, applied]
activate_leader(b, p, t) ==
    IF "clear" \in t /\ "weather" \in t THEN [b |-> clear_weather(b), applied |-> TRUE]
    ELSE IF "biting frost" \in t
       THEN [b |-> leader_apply_weather(b, "biting frost"), applied |-> TRUE]
    ELSE IF "impenetrable fog" \in t
       THEN [b |-> leader_apply_weather(b, "impenetrable fog"), applied |-> TRUE]
    ELSE IF "torrential rain" \in t
       THEN [b |-> leader_apply_weather(b, "torrential rain"), applied |-> TRUE]
    ELSE IF "skellige storm" \in t
       THEN [b |-> leader_apply_weather(b, "skellige storm"), applied |-> TRUE]
    ELSE IF Doubles(t) /\ ("melee" \in t \/ "close" \in t)
       THEN [b |-> [b EXCEPT !.horn[p][MELEE] = TRUE], applied |-> TRUE]
    ELSE IF Doubles(t) /\ ("ranged" \in t \/ "range" \in t)
       THEN [b |-> [b EXCEPT !.horn[p][RANGED] = TRUE], applied |-> TRUE]
    ELSE IF Doubles(t) /\ "siege" \in t
       THEN [b |-> [b EXCEPT !.horn[p][SIEGE] = TRUE], applied |-> TRUE]
    ELSE [b |-> b, applied |-> FALSE]

(***************************************************************************)
(* The calls of the driver                                                 *)
(***************************************************************************)
\* what a call that reached _check_round_end reports: whether it found the
\* round finished, the winner it credited, whether it started a round
\* (the row field is kept only for the calls made on a Board directly)
Report(op, p, c, tu, before, after) ==
    [op |-> op, player |-> p, card |-> c, row |-> NoRow, target |-> tu, err |-> ERR_NONE,
     round_end |-> before.has_round /\ before.finished,
     winner |-> round_winner(before),
     started |-> after.round_number # before.round_number, applied |-> FALSE]
Failed(op, p, c, tu, e) ==
    [op |-> op, player |-> p, card |-> c, row |-> NoRow, target |-> tu, err |-> e,
     round_end |-> FALSE, winner |-> "", started |-> FALSE, applied |-> FALSE]

\* the cards of the match
Dealt == UNION {SeqRange(hand[p]) \cup SeqRange(deck[p]) \cup SeqRange(decks[p])
                \cup SeqRange(graveyards[p]) \cup SeqRange(RowsOf(Board, p)) : p \in PlayerIds}

\* match.board.decks[p.id].extend(hand + deck), as the UIs do right after
\* Match(players) (text_ui.py 299-301 and 557-559, visual_ui.py 1440-1442)
RegisterDecks ==
    /\ round_number = 0
    /\ \A p \in PlayerIds : decks[p] = <<>>
    /\ \E p \in PlayerIds : hand[p] \o deck[p] # <<>>
    /\ decks' = [p \in PlayerIds |-> hand[p] \o deck[p]]
    /\ last' = [NoCall EXCEPT !.op = "register"]
    /\ UNCHANGED <<hand, deck, passed, leader_used, deal, rows, horn_active, weather_active,
                   active_weather, graveyards, avenged, trow, round_number, wins, lives,
                   has_round, turn_index, finished>>

\* Match.start_round(): the drivers call it once, before the first turn
\* (text_ui.py 168, visual_ui.py 1093); the later rounds are started by
\* Match._check_round_end
StartRound ==
    /\ ~has_round
    /\ Install(start_round(MatchState))
    /\ UNCHANGED leader_used
    /\ last' = [NoCall EXCEPT !.op = "start_round", !.started = TRUE]

\* the end of Match.play_card and Match.pass_turn: _check_round_end
Conclude(op, p, c, tu, before, after) ==
    /\ Install(after)
    /\ UNCHANGED leader_used
    /\ last' = Report(op, p, c, tu, before, after)
Finish(op, p, c, tu, m) == Conclude(op, p, c, tu, m, check_round_end(m))

\* Match.play_card(player, card, target_row=, target_unit=) (match.py 29-33)
PlayCardDone(p, c, tu, r) ==
    IF r.err # ERR_NONE
    THEN /\ Install(r.m)
         /\ UNCHANGED leader_used
         /\ last' = Failed("play_card", p, c, tu, r.err)
    ELSE Finish("play_card", p, c, tu, r.m)
PlayCard(p, c, target_row, target_unit) ==
    /\ \A q \in PlayerIds : wins[q] < MaxWins
    /\ IF ~has_round
       THEN /\ UNCHANGED <<engine, deal>>
            /\ last' = Failed("play_card", p, c, target_unit, ERR_NO_ROUND)
       ELSE PlayCardDone(p, c, target_unit, round_play_card(MatchState, p, c, target_row, target_unit))

\* Match.pass_turn(player) (match.py 35-39)
PassTurn(p) ==
    /\ \A q \in PlayerIds : wins[q] < MaxWins
    /\ IF ~has_round
       THEN /\ UNCHANGED <<engine, deal>>
            /\ last' = Failed("pass_turn", p, NoCard, NoCard, ERR_NO_ROUND)
       ELSE Finish("pass_turn", p, NoCard, NoCard, round_pass_turn(MatchState, p))

\* GwentTextUI._activate_leader (text_ui.py 101-115), the "leader" command
\* of the player whose turn it is in a round in progress (text_ui.py 173-181, 278)
\* A faulty variant of the command: leader_used is set whatever the effect
LeaderDoneMarksAlways(p, res) ==
    /\ Install([MatchState EXCEPT !.b = res.b])
    /\ leader_used' = [leader_used EXCEPT ![p] = TRUE]
    /\ last' = [NoCall EXCEPT !.op = "leader", !.player = p, !.applied = res.applied]
LeaderDone(p, res) ==
    /\ Install([MatchState EXCEPT !.b = res.b])
    /\ leader_used' = [leader_used EXCEPT ![p] = @ \/ res.applied]
    /\ last' = [NoCall EXCEPT !.op = "leader", !.player = p, !.applied = res.applied]
ActivateLeader(p) ==
    /\ has_round /\ ~finished
    /\ IF leader_used[p] \/ deal.leader[p] = NoLeader
       THEN /\ UNCHANGED <<engine, deal>>
            /\ last' = [NoCall EXCEPT !.op = "leader", !.player = p]
       ELSE LeaderDone(p, activate_leader(Board, p, deal.leader[p]))

(***************************************************************************)
(* HybridAI (ai/hybrid_ai.py).  An Action is [kind, card, target_row,      *)
(* target_unit]; a score is ten times the float of the code, whose weights *)
(* are 1.0, 0.7, 1.5, 1.0 and 0.5.                                         *)
(***************************************************************************)
ERR_AI_NO_ROUND == "RuntimeError: No active round for AI"
PassAction == [kind |-> "pass", card |-> NoCard, target_row |-> NoRow, target_unit |-> NoCard]
PlayAction(c, r, t) == [kind |-> "play", card |-> c, target_row |-> r, target_unit |-> t]

\* max(s, key=Key) and the loops "if score > best": the first element of
\* the non-empty s with the greatest key
FirstBest(s, Key(_)) ==
    s[CHOOSE i \in 1..Len(s) :
          \A j \in 1..Len(s) : Key(s[i]) > Key(s[j]) \/ (Key(s[i]) = Key(s[j]) /\ i <= j)]

\* sorted(units, key=lambda c: c.power): a stable sort
RECURSIVE SortedByPower(_)
InsertByPower(t, c) ==
    SelectSeq(t, LAMBDA x : base_power(x) <= base_power(c)) \o <<c>>
        \o SelectSeq(t, LAMBDA x : base_power(x) > base_power(c))
SortedByPower(s) ==
    IF s = <<>> THEN <<>>
    ELSE InsertByPower(SortedByPower(SubSeq(s, 1, Len(s) - 1)), s[Len(s)])

\* _generate_candidate_actions (hybrid_ai.py 63-97): the cards considered
AISpecial(c) == CardAbilities(c) \cap {SPY, SCORCH, MEDIC, HORN, WEATHER, DECOY} # {}
\* A faulty variant of the representatives: strongest first
UnitReprsStrongestFirst(u) ==
    IF u = <<>> THEN <<>>
    ELSE <<u[Len(u)]>> \o (IF Len(u) > 2 THEN <<u[(Len(u) \div 2) + 1]>> ELSE <<>>)
                       \o (IF Len(u) > 1 THEN <<u[1]>> ELSE <<>>)
UnitReprs(u) ==
    IF u = <<>> THEN <<>>
    ELSE <<u[1]>> \o (IF Len(u) > 2 THEN <<u[(Len(u) \div 2) + 1]>> ELSE <<>>)
                  \o (IF Len(u) > 1 THEN <<u[Len(u)]>> ELSE <<>>)
\* the cards of a hand differ from each other, so that no representative is
\* in the list already
Considered(h) ==
    SelectSeq(h, AISpecial) \o UnitReprs(SortedByPower(SelectSeq(h, LAMBDA c : ~AISpecial(c))))

\* _card_actions (hybrid_ai.py 99-160)
RECURSIVE HornGain(_, _)
HornGain(cards, i) ==
    IF i > Len(cards) THEN 0
    ELSE (IF is_hero(cards[i]) THEN 0 ELSE base_power(cards[i])) + HornGain(cards, i + 1)
TargetActions(b, p, c, targets) ==
    IF targets = <<>> THEN <<>>
    ELSE <<PlayAction(c, NoRow, FirstBest(targets, base_power))>>
HornActions(b, p, c, best_row) ==
    IF HornGain(b.rows[p][best_row], 1) > 0 THEN <<PlayAction(c, best_row, NoCard)>> ELSE <<>>
UnitActions(b, p, c, rows_to_try) ==
    IF rows_to_try = <<>> THEN <<PlayAction(c, NoRow, NoCard)>>
    ELSE <<PlayAction(c, FirstBest(rows_to_try, LAMBDA r : row_strength(b, p, r) + base_power(c)),
                      NoCard)>>
card_actions(b, p, c) ==
    IF CardAbilities(c) \cap {DECOY, MARDROEME} # {}
    THEN TargetActions(b, p, c, RowsOf(b, p))
    ELSE IF SPY \in CardAbilities(c) THEN <<PlayAction(c, NoRow, NoCard)>>
    ELSE IF WEATHER \in CardAbilities(c) \/ (SCORCH \in CardAbilities(c) /\ ~is_unit(c))
    THEN <<PlayAction(c, NoRow, NoCard)>>
    ELSE IF HORN \in CardAbilities(c) /\ ~is_unit(c)
    THEN HornActions(b, p, c, FirstBest(RowKeys, LAMBDA r : HornGain(b.rows[p][r], 1)))
    ELSE UnitActions(b, p, c,
                     IF combat_rows(c) # <<>>
                     THEN SelectSeq(combat_rows(c), LAMBDA r : r \in BoardRows)
                     ELSE <<CardRow(b, c)>>)

RECURSIVE CandidateActions(_, _, _, _)
CandidateActions(b, p, considered, i) ==
    IF i > Len(considered) THEN <<>>
    ELSE card_actions(b, p, considered[i]) \o CandidateActions(b, p, considered, i + 1)
generate_candidate_actions(m, p) == CandidateActions(m.b, p, Considered(m.hand[p]), 1)

\* A faulty variant of the rule: the lives are not looked at
PassWheneverAhead(m, p) ==
    total_strength(m.b, p) - total_strength(m.b, get_opponent(p)) >= 10

\* _should_consider_immediate_pass (hybrid_ai.py 165-183)
should_consider_immediate_pass(m, p) ==
    /\ total_strength(m.b, p) - total_strength(m.b, get_opponent(p)) >= 10
    /\ ~(m.lives[p] < m.lives[get_opponent(p)] /\ m.round_number >= 2)

\* _evaluate_after_action (hybrid_ai.py 185-239), times ten
AbilityBonus(a) ==
    IF a.kind = "play" /\ a.card # NoCard
    THEN (IF SPY \in CardAbilities(a.card) THEN 8 ELSE 0)
         + (IF SCORCH \in CardAbilities(a.card) THEN 6 ELSE 0)
         + (IF MEDIC \in CardAbilities(a.card) THEN 5 ELSE 0)
         + (IF HORN \in CardAbilities(a.card) THEN 4 ELSE 0)
         + (IF WEATHER \in CardAbilities(a.card) THEN 3 ELSE 0)
    ELSE 0
RoundBonus(m, me, opp) ==
    IF m.wins[me] > m.wins[opp] THEN 3 ELSE IF m.wins[me] < m.wins[opp] THEN 0 - 3 ELSE 0
evaluate_after_action(m, me, opp, a) ==
    10 * (total_strength(m.b, me) - total_strength(m.b, opp))
    + 7 * ((Len(m.hand[me]) + Len(m.b.decks[me])) - (Len(m.hand[opp]) + Len(m.b.decks[opp])))
    + 15 * (m.lives[me] - m.lives[opp])
    + 10 * RoundBonus(m, me, opp)
    + 5 * AbilityBonus(a)

\* A faulty variant of the evaluation: "score >= best_score", so that of
\* equal scores the last wins
BestActionLastOfEqual(m, p, candidates) ==
    IF candidates = <<>> THEN PassAction
    ELSE IF should_consider_immediate_pass(m, p) THEN PassAction
    ELSE IF \A i \in 1..Len(candidates) :
                evaluate_after_action(m, p, get_opponent(p), candidates[i])
                    <= evaluate_after_action(m, p, get_opponent(p), PassAction)
    THEN PassAction
    ELSE FirstBest(candidates, LAMBDA a : evaluate_after_action(m, p, get_opponent(p), a))

\* HybridAI(p).choose_action(match) in an active round (hybrid_ai.py 32-58)
BestAction(m, p, candidates) ==
    IF candidates = <<>> THEN PassAction
    ELSE IF should_consider_immediate_pass(m, p) THEN PassAction
    ELSE FirstBest(Append(candidates, PassAction),
                   LAMBDA a : evaluate_after_action(m, p, get_opponent(p), a))
choose_action(m, p) == BestAction(m, p, generate_candidate_actions(m, p))

\* what the call gave: the Action, or the exception
Chosen(p, a) ==
    [Failed("choose_action", p, a.card, a.target_unit, ERR_NONE) EXCEPT !.row = a.target_row]

\* A faulty variant of the AI: the card of the chosen Action leaves the hand
ChooseActionAndTake(p) ==
    /\ has_round
    /\ \A a \in {choose_action(MatchState, p)} :
           /\ Install([MatchState EXCEPT !.hand[p] = RemoveFirst(@, a.card)])
           /\ last' = Chosen(p, a)
    /\ UNCHANGED leader_used

\* HybridAI(p).choose_action(match), called by the drivers for the player
\* whose turn it is in a round that is not finished (text_ui.py 170-187,
\* visual_ui.py 1120-1133), or with no round at all
ChooseAction(p) ==
    /\ has_round => ~finished
    /\ UNCHANGED <<engine, deal>>
    /\ last' = IF ~has_round
               THEN Failed("choose_action", p, NoCard, NoCard, ERR_AI_NO_ROUND)
               ELSE Chosen(p, choose_action(MatchState, p))

\* The arguments of the calls.  A card outside the hand is rejected whatever
\* it is, target_row is read only for a Decoy, a Spy, a Horn or a unit, and
\* target_unit only by Decoy and Mardroeme, where all that counts is whether
\* it lies on a row of the player: one argument of each kind is enumerated.
OnRowsOf(p) == SeqRange(RowsOf(Board, p))
Outsider(S) == IF Dealt \ S = {} THEN {} ELSE {CHOOSE x \in Dealt \ S : TRUE}
CardArgs(p) == SeqRange(hand[p]) \cup Outsider(SeqRange(hand[p]))
RowArgs(c) ==
    IF WEATHER \in CardAbilities(c) \/ (~is_unit(c) /\ CardAbilities(c) \cap {SCORCH, MARDROEME} # {})
    THEN {NoRow} ELSE TargetRows
UnitArgs(p, c) ==
    IF ~is_unit(c) /\ CardAbilities(c) \cap {DECOY, MARDROEME} # {} /\ WEATHER \notin CardAbilities(c)
    THEN {NoCard} \cup OnRowsOf(p) \cup Outsider(OnRowsOf(p))
    ELSE {NoCard}

\* The drivers pass current_round.active_player as the player of a call
\* (text_ui.py 181, visual_ui.py 1242 and 1292)
active_player == Players[turn_index + 1]
Actors == IF has_round THEN {active_player} ELSE PlayerIds

Next ==
    \/ RegisterDecks
    \/ StartRound
    \/ \E p \in Actors : \E c \in CardArgs(p) : \E tr \in RowArgs(c) : \E tu \in UnitArgs(p, c) :
           PlayCard(p, c, tr, tu)
    \/ \E p \in Actors : PassTurn(p)
    \/ \E p \in Actors : ActivateLeader(p)
    \/ \E p \in Actors : ChooseAction(p)

Spec == Init /\ [][Next]_vars

(***************************************************************************)
(* A Board driven directly, as tests/test_board.py drives it: the cards    *)
(* are built by the caller, Board.add_to_deck fills the Muster decks, and  *)
(* Board.play_card, Board.cleanup_after_round and the leader effects are   *)
(* called on the Board with no Round or Match around it.  hand[p] holds    *)
(* the cards built for player p that were not played yet.                  *)
(***************************************************************************)
\* The kits: the cards built for each player, the cards given to
\* Board.add_to_deck, and the ability text handed to activate_leader
Kits ==
    { MkDeal(<<3, 15, 16, 17>>, <<>>, {"double", "ranged", "range"},
             <<>>, <<>>, {"impenetrable fog"}),
      MkDeal(<<17, 19, 20, 21, 28>>, <<>>, {"biting frost"}, <<>>, <<>>, NoLeader),
      MkDeal(<<1, 3, 14>>, <<>>, NoLeader, <<2, 6>>, <<>>, {"impenetrable fog"}),
      MkDeal(<<4, 1, 3, 11, 22>>, <<>>, NoLeader, <<>>, <<>>, NoLeader),
      MkDeal(<<12, 25>>, <<2, 13, 26, 27>>, NoLeader, <<13>>, <<>>, NoLeader),
      MkDeal(<<4, 28, 5, 1>>, <<>>, NoLeader, <<24, 2>>, <<>>, NoLeader),
      MkDeal(<<14, 11, 7>>, <<>>, NoLeader, <<6, 23>>, <<>>, NoLeader),
      MkDeal(<<1, 7, 29>>, <<>>, NoLeader, <<>>, <<>>, NoLeader),
      MkDeal(<<9, 1, 8, 4>>, <<>>, NoLeader, <<>>, <<>>, NoLeader),
      MkDeal(<<1, 3, 18, 30, 28>>, <<>>, NoLeader, <<>>, <<>>, NoLeader),
      MkDeal(<<19, 17, 7, 6>>, <<>>, NoLeader, <<>>, <<>>, NoLeader) }

\* Board(["P1", "P2"]) (board.py 74-84) and board.add_to_deck (board.py 86-87)
BoardInit ==
    \E k \in Kits :
        /\ deal = k
        /\ hand = k.hand
        /\ deck = [p \in PlayerIds |-> <<>>]
        /\ passed = [p \in PlayerIds |-> FALSE]
        /\ leader_used = [p \in PlayerIds |-> FALSE]
        /\ rows = [p \in PlayerIds |-> [r \in BoardRows |-> <<>>]]
        /\ horn_active = [p \in PlayerIds |-> [r \in BoardRows |-> FALSE]]
        /\ weather_active = [p \in PlayerIds |-> [r \in BoardRows |-> FALSE]]
        /\ active_weather = [r \in BoardRows |-> FALSE]
        /\ decks = k.deck
        /\ graveyards = [p \in PlayerIds |-> <<>>]
        /\ avenged = {}
        /\ trow = [c \in TransformedIds |-> NoRow]
        /\ round_number = 0
        /\ wins = [p \in PlayerIds |-> 0]
        /\ lives = [p \in PlayerIds |-> 2]
        /\ has_round = FALSE
        /\ turn_index = 0
        /\ finished = FALSE
        /\ last = NoCall

\* board.play_card(p, c, target_row=, target_unit=) (board.py 95-207);
\* res = what the call returned or raised.  A unit that a Decoy has sent
\* back (events["decoy_returned"]) can be played again
KeepReturned(m, p, ev) ==
    IF ev.decoy_returned # NoCard
    THEN [m EXCEPT !.hand[p] = Append(@, ev.decoy_returned)]
    ELSE m
BoardCall(p, c, tr, tu, e) ==
    [NoCall EXCEPT !.op = "board.play_card", !.player = p, !.card = c,
                   !.row = tr, !.target = tu, !.err = e]
BoardPlayDone(p, c, tr, tu, res) ==
    /\ Install(KeepReturned(
                   [MatchState EXCEPT !.b = res.b,
                                      !.hand[p] = IF res.err = ERR_NONE THEN RemoveFirst(@, c) ELSE @],
                   p, res.ev))
    /\ UNCHANGED leader_used
    /\ last' = BoardCall(p, c, tr, tu, res.err)
BoardPlayCard(p, c, tr, tu) ==
    /\ InSeq(c, hand[p])
    /\ BoardPlayDone(p, c, tr, tu, play_card(Board, p, c, tr, tu))

\* board.cleanup_after_round() (board.py 283-292)
BoardCleanup ==
    /\ \E p \in PlayerIds : RowsOf(Board, p) # <<>>
    /\ Install([MatchState EXCEPT !.b = cleanup_after_round(Board)])
    /\ UNCHANGED leader_used
    /\ last' = [NoCall EXCEPT !.op = "board.cleanup"]

\* activate_leader(board, p, text) (effects.py 26-57), once per player
BoardLeader(p) ==
    /\ ~leader_used[p]
    /\ deal.leader[p] # NoLeader
    /\ LeaderDone(p, activate_leader(Board, p, deal.leader[p]))

BoardNext ==
    \/ \E p \in PlayerIds : \E c \in SeqRange(hand[p]) :
           \E tr \in RowArgs(c) : \E tu \in UnitArgs(p, c) : BoardPlayCard(p, c, tr, tu)
    \/ BoardCleanup
    \/ \E p \in PlayerIds : BoardLeader(p)

BoardSpec == BoardInit /\ [][BoardNext]_vars

(***************************************************************************)
(* Properties                                                              *)
(***************************************************************************)
\* the cards in a hand or a deck when the match starts
DealtCards == UNION {SeqRange(deal.hand[p]) \cup SeqRange(deal.deck[p]) : p \in PlayerIds}

\* how often a container holds card c or the card Mardroeme made of it
Holds(s, c) == Count(c, s) + Count(TransformedId(c), s)
PlacesOf(p, c) ==
    Holds(hand[p], c) + Holds(deck[p], c) + Holds(decks[p], c)
        + Holds(graveyards[p], c) + Holds(RowsOf(Board, p), c)
Places(c) == PlacesOf(Players[1], c) + PlacesOf(Players[2], c)

\* C1: no card is ever lost: every card dealt at the start of the match is,
\* in every reachable state, in a hand, a deck, a row or a graveyard
NoCardLost == \A c \in DealtCards : Places(c) >= 1

\* C2: no card is ever duplicated: no card is in two containers at once
\* (hand, Player.deck, Board.decks, row, graveyard) nor twice in one
NoCardDuplicated == \A c \in DealtCards : Places(c) <= 1

\* C3: in every state between the operations of the Match and the leader
\* activations, rows[p][r].weather_active equals active_weather[r]
WeatherFlagsInStep ==
    \A p \in PlayerIds : \A r \in BoardRows : weather_active[p][r] = active_weather[r]
\* a leader has just set the fog, and the ranged rows of both players show it
WeatherFlagsWitness ==
    /\ last.op = "leader" /\ last.applied
    /\ active_weather[RANGED]
    /\ \A p \in PlayerIds : weather_active[p][RANGED]

\* C4: between the operations, Round.finished is true if and only if every
\* player has passed or has an empty hand
FinishedIffAllDone == has_round => (finished <=> AllDone(MatchState))

\* C5: when a call finds the round finished, it starts a new round if and
\* only if no player has two wins and fewer than three rounds were played
RoundsPlayed == IF last.started THEN round_number - 1 ELSE round_number
MatchEndsOrContinues ==
    last.round_end =>
        (last.started <=> ((\A p \in PlayerIds : wins[p] < 2) /\ RoundsPlayed < 3))
\* a call has ended the second round and started the third
MatchContinuesWitness == last.round_end /\ last.started /\ round_number = 3

\* C6: wins[p] is 0, 1 or 2 for every player after any sequence of calls
WinsInRange == \A p \in PlayerIds : wins[p] \in {0, 1, 2}

\* a call of play_card or pass_turn that found the round finished and drawn
DrawnRoundStep ==
    /\ last'.op \in {"play_card", "pass_turn"}
    /\ last'.round_end
    /\ last'.winner = ""

ErrorsAtomic ==
    [][last'.err # ERR_NONE =>
          UNCHANGED <<hand, deck, decks, rows, graveyards, weather_active, active_weather,
                      horn_active, passed, turn_index, wins, lives>>]_vars

\* a Decoy or Mardroeme special played from the hand with a target_unit that
\* is on none of the rows of the acting player
IsTargeting(c) ==
    /\ ~is_unit(c)
    /\ CardAbilities(c) \cap {DECOY, MARDROEME} # {}
    /\ CardAbilities(c) \cap {WEATHER, SCORCH} = {}
OffBoardTargetStep ==
    /\ last'.op = "play_card"
    /\ has_round
    /\ InSeq(last'.card, hand[last'.player])
    /\ IsTargeting(last'.card)
    /\ last'.target # NoCard
    /\ ~InSeq(last'.target, RowsOf(Board, last'.player))

\* C9: a Decoy or Mardroeme whose target_unit is not on the acting player's
\* rows is rejected with an error and the card stays in the hand
OffBoardTargetRejected ==
    [][OffBoardTargetStep =>
          /\ last'.err # ERR_NONE
          /\ InSeq(last'.card, hand'[last'.player])]_vars

\* Scorch on board b: the non-hero units as <<card, player, row>>, their
\* incremental values on b, and what became of them on the board after
Spots == {<<p, r>> : p \in PlayerIds, r \in BoardRows}
UnitsOn(b) ==
    UNION {{<<c, s[1], s[2]>> : c \in {x \in SeqRange(b.rows[s[1]][s[2]]) :
                                           is_unit(x) /\ ~is_hero(x)}} : s \in Spots}
NoHeroes(b) == \A s \in Spots : \A c \in SeqRange(b.rows[s[1]][s[2]]) : ~is_hero(c)
ValueOn(b, u) ==
    effective_strength(b.rows[u[2]][u[3]], b.wa[u[2]][u[3]], b.horn[u[2]][u[3]])
        - effective_strength(RemoveFirst(b.rows[u[2]][u[3]], u[1]),
                             b.wa[u[2]][u[3]], b.horn[u[2]][u[3]])
Destroyed(b, after) ==
    {u \in UnitsOn(b) : Count(u[1], after.rows[u[2]][u[3]]) < Count(u[1], b.rows[u[2]][u[3]])}
Staying(b, after) == {u \in UnitsOn(b) : InSeq(u[1], after.rows[u[2]][u[3]])}
Returned(b, after) == {u \in UnitsOn(b) : u[1] \in after.avenged \ b.avenged}
ScorchFair(b, after, exempt) ==
    \A u \in Staying(b, after) \ exempt : \A d \in Destroyed(b, after) \cup exempt :
        ValueOn(b, u) < ValueOn(b, d)

\* a Scorch special played from the hand onto a board with no heroes
ScorchStep ==
    /\ last'.op = "play_card"
    /\ last'.err = ERR_NONE
    /\ has_round
    /\ InSeq(last'.card, hand[last'.player])
    /\ ~is_unit(last'.card)
    /\ SCORCH \in CardAbilities(last'.card)
    /\ WEATHER \notin CardAbilities(last'.card)
    /\ NoHeroes(Board)

\* C10, as stated: after a Scorch on a board with no heroes, no unit that
\* stays on the board had, before the Scorch, a value greater than or equal
\* to that of a destroyed unit, Avenger and Tight Bond units included
ScorchFairness ==
    [][ScorchStep => ScorchFair(Board, apply_scorch(Board), {})]_vars

\* C10, amended: no unit that stays on the board, except the Avenger units
\* that the Scorch destroyed and their on-death trigger put back on their
\* row, had before the Scorch a value greater than or equal to that of a
\* destroyed unit or of such a returned Avenger unit
ScorchFairnessButAvenger ==
    [][ScorchStep =>
          ScorchFair(Board, apply_scorch(Board),
                     Returned(Board, apply_scorch(Board)))]_vars
\* a Scorch has destroyed the two bonded commandos and left the soldier
ScorchFairnessWitness ==
    /\ last.op = "play_card" /\ last.err = ERR_NONE /\ last.card = 6
    /\ InSeq(15, graveyards[Players[1]]) /\ InSeq(16, graveyards[Players[1]])
    /\ RowsOf(Board, Players[1]) = <<>>
    /\ InSeq(1, RowsOf(Board, Players[2]))

(***************************************************************************)
(* Properties of a Board driven directly (BoardSpec)                       *)
(***************************************************************************)
BoardPlayed == last'.op = "board.play_card" /\ last'.err = ERR_NONE
\* what the call recorded in last' returns on the board before it
BoardResult == play_card(Board, last'.player, last'.card, last'.row, last'.target)

CardIds == 1..(2 * NumCards)
MaxOf(S) == IF S = {} THEN 0 ELSE CHOOSE n \in S : \A k \in S : k <= n
TopValue(b) == MaxOf({ValueOn(b, u) : u \in UnitsOn(b)})
Strongest(b) ==
    IF TopValue(b) > 0 THEN {u \in UnitsOn(b) : ValueOn(b, u) = TopValue(b)} ELSE {}
GoneFrom(b, gone, q, x) ==
    (IF <<x, q, MELEE>> \in gone THEN Count(x, b.rows[q][MELEE]) ELSE 0)
    + (IF <<x, q, RANGED>> \in gone THEN Count(x, b.rows[q][RANGED]) ELSE 0)
    + (IF <<x, q, SIEGE>> \in gone THEN Count(x, b.rows[q][SIEGE]) ELSE 0)
\* Scorch c played by p on board b has removed exactly the units of gone
\* and has put each into the graveyard of its row's player, and c into p's
ScorchExact(b, after, p, c, gone) ==
    /\ \A u \in Spots : \A x \in CardIds :
           Count(x, after.rows[u[1]][u[2]])
               = IF <<x, u[1], u[2]>> \in gone THEN 0 ELSE Count(x, b.rows[u[1]][u[2]])
    /\ \A q \in PlayerIds : \A x \in CardIds :
           Count(x, after.gy[q])
               = Count(x, b.gy[q]) + GoneFrom(b, gone, q, x)
                   + (IF q = p /\ x = c THEN 1 ELSE 0)

\* a Scorch special played on the Board
BoardScorchStep ==
    /\ BoardPlayed
    /\ ~is_unit(last'.card)
    /\ SCORCH \in CardAbilities(last'.card)
    /\ WEATHER \notin CardAbilities(last'.card)

\* C11, as stated: a standalone Scorch removes from the rows exactly the
\* non-hero units of both sides whose incremental value is the positive
\* maximum over all non-hero units, ties included; heroes and non-unit cards
\* stay; each removed unit is in the graveyard of its row's player and the
\* Scorch card in the graveyard of the player who played it
ScorchRemovesExactlyStrongest ==
    [][BoardScorchStep =>
          \A res \in {BoardResult} : \A gone \in {Strongest(Board)} :
              ScorchExact(Board, res.b, last'.player, last'.card, gone)]_vars

\* C11, amended: the same, except that a strongest unit with Avenger whose
\* trigger had not fired is put back on its row and is not in the graveyard
ScorchRemovesStrongestButAvenger ==
    [][BoardScorchStep =>
          \A res \in {BoardResult} :
              \A gone \in {Strongest(Board) \ Returned(Board, res.b)} :
                  ScorchExact(Board, res.b, last'.player, last'.card, gone)]_vars
\* a Scorch has destroyed the tied soldier and archer on the two sides and
\* left the hero on its row
ScorchExactWitness ==
    /\ last.op = "board.play_card" /\ last.err = ERR_NONE /\ last.card = 6
    /\ InSeq(3, RowsOf(Board, Players[1]))
    /\ InSeq(1, graveyards[Players[1]])
    /\ graveyards[Players[2]] = <<2, 6>>

\* a unit with Medic placed on the Board
BoardMedicStep ==
    /\ BoardPlayed
    /\ is_unit(last'.card)
    /\ MEDIC \in CardAbilities(last'.card)
    /\ SPY \notin CardAbilities(last'.card)

\* the non-hero units of a graveyard, and the cards that left it
Revivable(gy) == {x \in SeqRange(gy) : is_unit(x) /\ ~is_hero(x)}
LeftGraveyard(b, after, p) ==
    {x \in SeqRange(b.gy[p]) : Count(x, after.gy[p]) < Count(x, b.gy[p])}
OneIf(cond) == IF cond THEN 1 ELSE 0
\* Medic c placed by p: one strongest non-hero unit (none when there is
\* none) has gone from p's graveyard to p's rows, nothing else has moved
MedicResurrectsBest(b, after, p, c) ==
    /\ Len(after.gy[p]) = Len(b.gy[p]) - OneIf(Revivable(b.gy[p]) # {})
    /\ Cardinality(LeftGraveyard(b, after, p)) = OneIf(Revivable(b.gy[p]) # {})
    /\ \A x \in CardIds : Count(x, after.gy[p]) <= Count(x, b.gy[p])
    /\ \A x \in LeftGraveyard(b, after, p) :
           /\ x \in Revivable(b.gy[p])
           /\ \A y \in Revivable(b.gy[p]) : base_power(y) <= base_power(x)
           /\ Count(x, RowsOf(after, p)) = Count(x, RowsOf(b, p)) + 1 + OneIf(x = c)
    /\ Len(RowsOf(after, p)) = Len(RowsOf(b, p)) + 1 + OneIf(Revivable(b.gy[p]) # {})
    /\ \A q \in PlayerIds \ {p} : after.gy[q] = b.gy[q] /\ after.rows[q] = b.rows[q]

\* C12: when a unit with Medic is placed and the player's graveyard holds a
\* non-hero unit, exactly one card goes from that graveyard to the player's
\* own rows, a non-hero unit of the largest base power among the graveyard's
\* non-hero units; a hero or a non-unit card is never resurrected, and with
\* no non-hero unit in the graveyard nothing moves
MedicResurrectsStrongest ==
    [][BoardMedicStep =>
          \A res \in {BoardResult} :
              MedicResurrectsBest(Board, res.b, last'.player, last'.card)]_vars
\* the field medic has been placed with the hero, the soldier and the frost
\* card in the graveyard, and the soldier is back on a row
MedicWitness ==
    /\ last.op = "board.play_card" /\ last.err = ERR_NONE /\ last.card = 11
    /\ InSeq(3, graveyards[Players[1]]) /\ InSeq(4, graveyards[Players[1]])
    /\ InSeq(1, RowsOf(Board, Players[1]))
    /\ ~InSeq(1, graveyards[Players[1]])
\* the field medic has been placed with only the hero and the frost card in
\* the graveyard, and both are still there
MedicNothingWitness ==
    /\ last.op = "board.play_card" /\ last.err = ERR_NONE /\ last.card = 11
    /\ graveyards[Players[1]] \in {<<3, 4>>, <<4, 3>>}

\* C13: Medic does not chain: one placement of a unit with Medic takes at
\* most one card out of the graveyards, also when the resurrected unit has
\* Medic itself and the graveyard holds further non-hero units
MedicDoesNotChain ==
    [][BoardMedicStep =>
          \A res \in {BoardResult} :
              /\ \A q \in PlayerIds : Len(res.b.gy[q]) >= Len(Board.gy[q]) - OneIf(q = last'.player)
              /\ Cardinality(LeftGraveyard(Board, res.b, last'.player)) <= 1]_vars
\* the field medic has resurrected the surgeon, a Medic itself, and the
\* soldier is still in the graveyard
MedicNoChainWitness ==
    /\ last.op = "board.play_card" /\ last.err = ERR_NONE /\ last.card = 11
    /\ InSeq(22, RowsOf(Board, Players[1]))
    /\ InSeq(1, graveyards[Players[1]])
    /\ ~InSeq(22, graveyards[Players[1]])

\* a unit with Muster played on the Board (never a nested Muster play)
BoardMusterStep ==
    /\ BoardPlayed
    /\ is_unit(last'.card)
    /\ MUSTER \in CardAbilities(last'.card)
    /\ SPY \notin CardAbilities(last'.card)

\* the deck units whose group tag is the group of c, the name of c when c
\* has no group; the sum of the base powers of a list of cards
GroupOf(c) == IF CardGroup(c) = "" THEN CardName(c) ELSE CardGroup(c)
InGroupOf(c, d) == is_unit(d) /\ CardGroup(d) = GroupOf(c)
RECURSIVE PowerOf(_)
PowerOf(cards) == IF cards = <<>> THEN 0 ELSE base_power(Head(cards)) + PowerOf(Tail(cards))
\* no weather, horn, Tight Bond or Morale Boost on the rows of p
PlainRows(b, p) ==
    /\ \A r \in BoardRows : ~b.wa[p][r] /\ ~b.horn[p][r]
    /\ \A x \in SeqRange(RowsOf(b, p)) : CardAbilities(x) \cap {TIGHT_BOND, MORALE_BOOST} = {}
MusterPulledAll(b, after, p, c) ==
    /\ after.decks[p] = SelectSeq(b.decks[p], LAMBDA d : ~InGroupOf(c, d))
    /\ \A q \in PlayerIds \ {p} : after.decks[q] = b.decks[q] /\ after.rows[q] = b.rows[q]
    /\ \A x \in CardIds :
           Count(x, RowsOf(after, p))
               = Count(x, RowsOf(b, p)) + OneIf(x = c)
                   + OneIf(InGroupOf(c, x)) * Count(x, b.decks[p])
    /\ \A x \in SeqRange(RowsOf(after, p)) : ~InSeq(x, after.decks[p])
    /\ PlainRows(b, p) /\ PlainRows(after, p) =>
           total_strength(after, p)
               = total_strength(b, p) + base_power(c)
                   + PowerOf(SelectSeq(b.decks[p], LAMBDA d : InGroupOf(c, d)))

\* C14: after a unit with Muster is played, every unit of the player's deck
\* whose group tag is the played card's group (its name when it has none)
\* has left the deck and is on the player's rows, no other deck card has
\* moved, and the rows' strength counts the played card and every pulled one
MusterPullsGroup ==
    [][BoardMusterStep =>
          \A res \in {BoardResult} :
              MusterPulledAll(Board, res.b, last'.player, last'.card)]_vars
\* the clan member has been played and has pulled the other clan member
\* from the deck, which keeps the archer
MusterWitness ==
    /\ last.op = "board.play_card" /\ last.err = ERR_NONE /\ last.card = 12
    /\ InSeq(13, RowsOf(Board, Players[1]))
    /\ InSeq(2, decks[Players[1]]) /\ ~InSeq(13, decks[Players[1]])
    /\ total_strength(Board, Players[1]) >= 7

\* Muster of c by p has played each deck card of the group once and has
\* ended with no card of the group left in the deck
MusterOnce(b, after, p, c) ==
    /\ \A x \in SeqRange(b.decks[p]) :
           InGroupOf(c, x) =>
               Count(x, RowsOf(after, p)) - Count(x, RowsOf(b, p)) - OneIf(x = c)
                   = Count(x, b.decks[p])
    /\ Len(RowsOf(after, p))
           = Len(RowsOf(b, p)) + 1 + Len(SelectSeq(b.decks[p], LAMBDA d : InGroupOf(c, d)))
    /\ Len(RowsOf(after, p)) + Len(after.decks[p]) = Len(RowsOf(b, p)) + Len(b.decks[p]) + 1
    /\ \A d \in SeqRange(after.decks[p]) : ~InGroupOf(c, d)
    /\ \A x \in SeqRange(b.decks[p]) : \A d \in SeqRange(after.decks[p]) :
           InGroupOf(c, x) /\ MUSTER \in CardAbilities(x) => ~InGroupOf(x, d)

\* C15: Muster ends after one level: resolving one Muster play makes as many
\* nested plays as there are matching deck cards, each matching card is
\* played once, and a pulled card that has Muster itself pulls nothing more
MusterOneLevel ==
    [][BoardMusterStep =>
          \A res \in {BoardResult} :
              res.err = ERR_NONE /\ MusterOnce(Board, res.b, last'.player, last'.card)]_vars
\* the ghoul has pulled the nekker, a Muster card itself, once; the other
\* ghoul, which has no group tag, is still in the deck
MusterOneLevelWitness ==
    /\ last.op = "board.play_card" /\ last.err = ERR_NONE /\ last.card = 25
    /\ Count(26, RowsOf(Board, Players[1])) = 1
    /\ InSeq(27, decks[Players[1]]) /\ ~InSeq(26, decks[Players[1]])

\* what a Scorch does to a strongest unit u = <<card, player, row>> that
\* has Avenger: back on the same row the first time, in the graveyard after
AvengerFate(b, after, u) ==
    IF u[1] \notin b.avenged
    THEN /\ InSeq(u[1], after.rows[u[2]][u[3]])
         /\ u[1] \in after.avenged
         /\ Count(u[1], after.gy[u[2]]) = Count(u[1], b.gy[u[2]])
    ELSE /\ ~InSeq(u[1], after.rows[u[2]][u[3]])
         /\ Count(u[1], after.gy[u[2]]) = Count(u[1], b.gy[u[2]]) + Count(u[1], b.rows[u[2]][u[3]])

\* C16: Avenger is one-shot: the mark set by the first return is never
\* taken back, whatever is called next (clean-up, Decoy, Medic, Scorch);
\* the first removal by Scorch puts the unit back on the same row, every
\* later removal leaves it in the graveyard
AvengerOneShot ==
    [][/\ avenged \subseteq avenged'
       /\ BoardScorchStep =>
              \A res \in {BoardResult} : \A u \in Strongest(Board) :
                  AVENGER \in CardAbilities(u[1]) => AvengerFate(Board, res.b, u)]_vars
\* kambi, returned once before, has been destroyed by a Scorch and is in the
\* graveyard, the field medic being still on a row (no clean-up since)
AvengerWitness ==
    /\ last.op = "board.play_card" /\ last.err = ERR_NONE /\ last.card \in {6, 23}
    /\ 14 \in avenged
    /\ InSeq(14, graveyards[Players[1]])
    /\ InSeq(11, RowsOf(Board, Players[1]))
    /\ InSeq(6, graveyards[Players[2]]) /\ InSeq(23, graveyards[Players[2]])

\* a weather card played on the Board: Clear Weather, or one of the others
IsClearWeather(c) == WEATHER \in CardAbilities(c) /\ CardName(c) = "clear weather"
ClearWeatherIds == {x \in 1..NumCards : IsClearWeather(x)}
BoardClearStep == BoardPlayed /\ IsClearWeather(last'.card)
BoardWeatherStep ==
    BoardPlayed /\ WEATHER \in CardAbilities(last'.card) /\ ~IsClearWeather(last'.card)
NoWeather(b) == \A r \in BoardRows : ~b.aw[r]
SameStrengths(b, after) ==
    \A u \in Spots : row_strength(after, u[1], u[2]) = row_strength(b, u[1], u[2])

\* Clear Weather c played by p on board b: no weather is left, every row is
\* worth what it is worth without weather, a board without weather keeps
\* its flags and strengths, and a second Clear Weather only adds its card
\* to the graveyard
ClearWeatherLaw(b, after, p, c) ==
    /\ NoWeather(after)
    /\ \A u \in Spots :
           /\ ~after.wa[u[1]][u[2]]
           /\ row_strength(after, u[1], u[2])
                  = effective_strength(b.rows[u[1]][u[2]], FALSE, b.horn[u[1]][u[2]])
    /\ NoWeather(b) => after.aw = b.aw /\ SameStrengths(b, after)
    /\ \A x \in ClearWeatherIds :
           play_card(after, p, x, NoRow, NoCard).b = [after EXCEPT !.gy[p] = Append(@, x)]
\* a Clear Weather played right after the weather card gives back the
\* strengths of board b, the board before the weather card
ClearRestores(b, after, p) ==
    \A x \in ClearWeatherIds : SameStrengths(b, play_card(after, p, x, NoRow, NoCard).b)

\* C17, as stated: Clear Weather sets every entry of active_weather to
\* false and every row strength to its value without weather; a weather
\* card followed by Clear Weather restores the strengths before the weather
\* card; on a board with no active weather it changes neither the flags nor
\* a strength; played twice it gives the board of playing it once, with the
\* second card in the graveyard
ClearWeatherRestoresAlways ==
    [][/\ BoardClearStep =>
              \A res \in {BoardResult} :
                  ClearWeatherLaw(Board, res.b, last'.player, last'.card)
       /\ BoardWeatherStep =>
              \A res \in {BoardResult} : ClearRestores(Board, res.b, last'.player)]_vars

\* C17, amended: the same, the strengths before the weather card being
\* restored when no weather was active before that card
ClearWeatherClearsAll ==
    [][/\ BoardClearStep =>
              \A res \in {BoardResult} :
                  ClearWeatherLaw(Board, res.b, last'.player, last'.card)
       /\ BoardWeatherStep /\ NoWeather(Board) =>
              \A res \in {BoardResult} : ClearRestores(Board, res.b, last'.player)]_vars
\* Clear Weather has been played after the frost and the fog cards, with
\* the soldier on the melee row and the archer on the ranged row
ClearWeatherWitness ==
    /\ last.op = "board.play_card" /\ last.err = ERR_NONE /\ last.card = 5
    /\ InSeq(4, graveyards[Players[1]]) /\ InSeq(28, graveyards[Players[1]])
    /\ InSeq(1, rows[Players[1]][MELEE]) /\ InSeq(2, rows[Players[2]][RANGED])
    /\ NoWeather(Board)
    /\ row_strength(Board, Players[1], MELEE) = 5

\* a unit whose combat_rows is set, played with target_row missing or All
BoardAgileStep ==
    /\ BoardPlayed
    /\ is_unit(last'.card)
    /\ combat_rows(last'.card) # <<>>
    /\ last'.row \in {NoRow, ALL}

\* the player on whose rows c is placed, and what row r gains by c
SideOf(p, c) == IF SPY \in CardAbilities(c) THEN get_opponent(p) ELSE p
GainOn(b, q, r, c) ==
    effective_strength(Append(b.rows[q][r], c), b.wa[q][r], b.horn[q][r])
        - effective_strength(b.rows[q][r], b.wa[q][r], b.horn[q][r])
\* c has been placed on the first of its combat rows with the largest gain
PlacedOnBestRow(b, after, q, c) ==
    \E i \in 1..Len(combat_rows(c)) :
        /\ Count(c, after.rows[q][combat_rows(c)[i]]) = Count(c, b.rows[q][combat_rows(c)[i]]) + 1
        /\ \A j \in 1..Len(combat_rows(c)) :
               /\ GainOn(b, q, combat_rows(c)[j], c) <= GainOn(b, q, combat_rows(c)[i], c)
               /\ j < i => GainOn(b, q, combat_rows(c)[j], c) < GainOn(b, q, combat_rows(c)[i], c)

\* C18: a unit whose combat_rows is set, played with target_row missing or
\* All, is placed on one of its combat rows, one where the row gains the
\* most by it, the first listed such row on equal gains, whatever its home
\* row and abilities are
AgileOptimality ==
    [][BoardAgileStep =>
          \A res \in {BoardResult} :
              PlacedOnBestRow(Board, res.b, SideOf(last'.player, last'.card), last'.card)]_vars

\* the heroes of the rows that have a horn and no weather, as <<card, player, row>>
HornedHeroes ==
    UNION {{<<c, u[1], u[2]>> : c \in {x \in SeqRange(rows[u[1]][u[2]]) : is_hero(x)}} :
              u \in {v \in Spots : horn_active[v[1]][v[2]] /\ ~weather_active[v[1]][v[2]]}}
\* what card h = <<card, player, row>> adds to the strength of its row
Contribution(h) ==
    card_value(rows[h[2]][h[3]], weather_active[h[2]][h[3]], horn_active[h[2]][h[3]], h[1])
\* the base power of c on a row of these cards, with Tight Bond and Morale
\* Boost and without any doubling
Undoubled(cards, c) ==
    base_power(c)
        * (IF TIGHT_BOND \in CardAbilities(c)
           THEN Cardinality({i \in 1..Len(cards) :
                    TIGHT_BOND \in CardAbilities(cards[i]) /\ CardName(cards[i]) = CardName(c)})
           ELSE 1)
        + (IF is_unit(c) /\ MORALE_BOOST \notin CardAbilities(c)
           THEN Cardinality({i \in 1..Len(cards) : MORALE_BOOST \in CardAbilities(cards[i])})
           ELSE 0)

\* C19, as stated: on a row with horn and without weather each hero adds
\* exactly its base power to the row strength, whatever else is on the row
HeroAddsBasePower ==
    \A h \in HornedHeroes : Contribution(h) = base_power(h[1])

\* C19, amended: on a row with horn and without weather the horn never
\* doubles a hero: each hero adds its base power, multiplied by its Tight
\* Bond count and increased by the number of Morale Boost cards on the row
\* as for any unit, which is its base power when the row gives it neither
HeroNeverDoubled ==
    \A h \in HornedHeroes : Contribution(h) = Undoubled(rows[h[2]][h[3]], h[1])
\* the hero is on a ranged row with a horn, without weather, next to the banner
HeroWitness ==
    /\ horn_active[Players[1]][RANGED] /\ ~weather_active[Players[1]][RANGED]
    /\ InSeq(3, rows[Players[1]][RANGED]) /\ InSeq(17, rows[Players[1]][RANGED])
    /\ row_strength(Board, Players[1], RANGED) >= 9

\* the value of c on a row of these cards, from the value base it starts
\* with: times the Tight Bond count, plus the morale, doubled by the horn
InOrder(cards, horn, c, base) ==
    (IF horn /\ is_unit(c) /\ ~is_hero(c) THEN 2 ELSE 1)
        * (base * (IF TIGHT_BOND \in CardAbilities(c)
                   THEN Cardinality({i \in 1..Len(cards) :
                            TIGHT_BOND \in CardAbilities(cards[i])
                            /\ CardName(cards[i]) = CardName(c)})
                   ELSE 1)
           + (IF is_unit(c) /\ MORALE_BOOST \notin CardAbilities(c)
              THEN Cardinality({i \in 1..Len(cards) : MORALE_BOOST \in CardAbilities(cards[i])})
              ELSE 0))
\* the value c starts with under weather
Weathered(weather, c) ==
    IF weather /\ ~is_hero(c) THEN (IF is_unit(c) THEN 1 ELSE 0) ELSE base_power(c)
RECURSIVE SumInOrder(_, _, _, _)
SumInOrder(cards, weather, horn, i) ==
    IF i > Len(cards) THEN 0
    ELSE InOrder(cards, horn, cards[i], Weathered(weather, cards[i]))
             + SumInOrder(cards, weather, horn, i + 1)
\* the row holds nothing but n same-named Tight Bond units, n >= 2
BondedOnly(cards) ==
    /\ Len(cards) >= 2
    /\ \A i \in 1..Len(cards) :
           /\ TIGHT_BOND \in CardAbilities(cards[i]) /\ is_unit(cards[i]) /\ ~is_hero(cards[i])
           /\ MORALE_BOOST \notin CardAbilities(cards[i])
           /\ CardName(cards[i]) = CardName(cards[1])
           /\ base_power(cards[i]) = base_power(cards[1])

\* C20, as stated: whatever the weather and horn flags of a row are, its
\* strength is the sum over its cards of: base power, times the Tight Bond
\* count, plus the morale of a unit without Morale Boost, doubled by the
\* horn for a non-hero unit
StrengthIgnoresWeather ==
    \A u \in Spots :
        row_strength(Board, u[1], u[2])
            = SumInOrder(rows[u[1]][u[2]], FALSE, horn_active[u[1]][u[2]], 1)

\* C20, amended: the same with the weather step first: under weather a
\* card that is not a hero starts from 1 if it is a unit and from 0 if not;
\* n same-named bonded units of power p are worth n*n*p on a row without
\* weather and horn
StrengthInOrder ==
    \A u \in Spots :
        /\ row_strength(Board, u[1], u[2])
               = SumInOrder(rows[u[1]][u[2]], weather_active[u[1]][u[2]],
                            horn_active[u[1]][u[2]], 1)
        /\ BondedOnly(rows[u[1]][u[2]])
           /\ ~weather_active[u[1]][u[2]] /\ ~horn_active[u[1]][u[2]] =>
               row_strength(Board, u[1], u[2])
                   = Len(rows[u[1]][u[2]]) * Len(rows[u[1]][u[2]])
                       * base_power(rows[u[1]][u[2]][1])
\* the two commandos and the banner are on a ranged row that has the horn
\* and the fog: (1 * 2 + 1) * 2 for each commando and 1 * 2 for the banner
StrengthWitness ==
    /\ horn_active[Players[1]][RANGED] /\ weather_active[Players[1]][RANGED]
    /\ InSeq(15, rows[Players[1]][RANGED]) /\ InSeq(16, rows[Players[1]][RANGED])
    /\ InSeq(17, rows[Players[1]][RANGED])
    /\ Len(rows[Players[1]][RANGED]) = 3
    /\ row_strength(Board, Players[1], RANGED) = 14

\* a unit with neither Tight Bond nor Morale Boost that is not a hero
PlainUnit(c) ==
    is_unit(c) /\ ~is_hero(c) /\ CardAbilities(c) \cap {TIGHT_BOND, MORALE_BOOST} = {}
\* the value c starts from on a row under weather
UnderWeather(c) == IF is_hero(c) THEN base_power(c) ELSE IF is_unit(c) THEN 1 ELSE 0
\* row r of player q on board b is under weather: every card counts from
\* UnderWeather, then bond, morale and horn apply
RowUnderWeather(b, q, r) ==
    /\ b.aw[r] /\ b.wa[q][r]
    /\ \A c \in SeqRange(b.rows[q][r]) :
           /\ card_value(b.rows[q][r], b.wa[q][r], b.horn[q][r], c)
                  = InOrder(b.rows[q][r], b.horn[q][r], c, UnderWeather(c))
           /\ PlainUnit(c) /\ b.horn[q][r] =>
                  card_value(b.rows[q][r], b.wa[q][r], b.horn[q][r], c)
                      = (1 + morale_count(b.rows[q][r])) * 2
    /\ (\A c \in SeqRange(b.rows[q][r]) : PlainUnit(c) /\ HORN \notin CardAbilities(c))
       /\ ~b.horn[q][r] =>
           row_strength(b, q, r) = Len(b.rows[q][r])

RoundPlayStep ==
    /\ last'.op = "play_card"
    /\ has_round
    /\ InSeq(last'.card, hand[last'.player])
\* what Round.play_card does to the match of the state before the call,
\* given the target_row of the call
RoundResult(tr) == round_play_card(MatchState, last'.player, last'.card, tr, last'.target)

\* Spy c played by p: c is on a row of the opponent and the rows of p are
\* what they were, p has drawn the top min(2, size) cards of the own deck
\* and the opponent has drawn nothing
SpyLaw(m, after, p, c) ==
    /\ Count(c, RowsOf(after.b, get_opponent(p))) = Count(c, RowsOf(m.b, get_opponent(p))) + 1
    /\ after.b.rows[p] = m.b.rows[p]
    /\ after.hand[p]
           = RemoveFirst(m.hand[p], c)
                 \o SubSeq(m.deck[p], 1, IF Len(m.deck[p]) < 2 THEN Len(m.deck[p]) ELSE 2)
    /\ Len(after.deck[p]) = Len(m.deck[p]) - (IF Len(m.deck[p]) < 2 THEN Len(m.deck[p]) ELSE 2)
    /\ after.hand[p] \o after.deck[p] = RemoveFirst(m.hand[p], c) \o m.deck[p]
    /\ after.hand[get_opponent(p)] = m.hand[get_opponent(p)]
    /\ after.deck[get_opponent(p)] = m.deck[get_opponent(p)]

\* C22: a Spy unit played through Round.play_card ends on a row of the
\* opponent and never on the player's own side; the player draws min(2,
\* size of the own deck) cards from the top of the own deck, and the
\* opponent draws nothing
SpyDrawsTwo ==
    [][RoundPlayStep /\ is_unit(last'.card) /\ SPY \in CardAbilities(last'.card) =>
          \A tr \in TargetRows : \A res \in {RoundResult(tr)} :
              res.err = ERR_NONE => SpyLaw(MatchState, res.m, last'.player, last'.card)]_vars
\* thaler has been played from a hand with a deck of two cards behind it:
\* it lies on the opponent's side, the two cards are in the hand, and the
\* opponent's deck is untouched
SpyWitness ==
    /\ last.op = "play_card" /\ last.err = ERR_NONE /\ last.card = 10
    /\ InSeq(10, RowsOf(Board, Players[2]))
    /\ hand[Players[1]] = <<1, 2>> /\ deck[Players[1]] = <<>>
    /\ deck[Players[2]] = <<11>> /\ hand[Players[2]] = <<>>

\* a Decoy special played from the hand with a target on the player's rows
DecoyRoundStep ==
    /\ RoundPlayStep
    /\ ~is_unit(last'.card)
    /\ DECOY \in CardAbilities(last'.card)
    /\ CardAbilities(last'.card) \cap {WEATHER, SCORCH} = {}
    /\ last'.target \in OnRowsOf(last'.player)
\* Decoy c played by p on target t with target_row tr: t is in the hand of
\* p and on no row, c lies where t was (on tr when tr is one of the three
\* rows), the graveyards are the same and the hand is as long as before
DecoyLaw(m, after, p, c, t, tr) ==
    /\ InSeq(t, after.hand[p])
    /\ \A q \in PlayerIds : ~InSeq(t, RowsOf(after.b, q))
    /\ InSeq(c, after.b.rows[p][IF tr \in BoardRows THEN tr ELSE RowsHolding(m.b, p, t)[1]])
    /\ after.b.gy = m.b.gy
    /\ Len(after.hand[p]) = Len(m.hand[p])

\* C23: a Decoy played through Round.play_card with a target on one of the
\* player's rows leaves the target in the player's hand and on no row, the
\* Decoy on the row of the target (or on target_row), the graveyards
\* unchanged and the hand of the same size
DecoyReturnsTarget ==
    [][DecoyRoundStep =>
          \A tr \in TargetRows : \A res \in {RoundResult(tr)} :
              /\ res.err = ERR_NONE
              /\ DecoyLaw(MatchState, res.m, last'.player, last'.card, last'.target, tr)]_vars

(***************************************************************************)
(* The card a Decoy gives back (BoardSpec)                                 *)
(***************************************************************************)
BoardDecoyStep ==
    /\ BoardPlayed
    /\ ~is_unit(last'.card)
    /\ DECOY \in CardAbilities(last'.card)
    /\ CardAbilities(last'.card) \cap {WEATHER, SCORCH} = {}

\* C24: the card that a Decoy play gives back (events["decoy_returned"]) is
\* a unit card that was on one of the playing player's rows, never a
\* non-unit card lying on a row such as an earlier Decoy
DecoyReturnsOnlyUnits ==
    [][BoardDecoyStep =>
          \A res \in {BoardResult} :
              res.ev.decoy_returned # NoCard =>
                  /\ is_unit(res.ev.decoy_returned)
                  /\ InSeq(res.ev.decoy_returned, RowsOf(Board, last'.player))]_vars

(***************************************************************************)
(* Mardroeme and Berserker (BoardSpec)                                     *)
(***************************************************************************)
BoardMardroemeStep ==
    /\ BoardPlayed
    /\ ~is_unit(last'.card)
    /\ MARDROEME \in CardAbilities(last'.card)
    /\ CardAbilities(last'.card) \cap {WEATHER, SCORCH, DECOY} = {}
BerserkerTarget(b, p, t) == InSeq(t, RowsOf(b, p)) /\ BERSERKER \in CardAbilities(t)

\* Mardroeme c played by p on the Berserker t of row r: the transformed
\* card has taken the place of t on r, it has power max(base, 8), no
\* Berserker and the transformed mark, the other cards lie where they
\* lay, and c is the last card of p's graveyard
TransformLaw(b, after, p, c, t, r) ==
    /\ InSeq(TransformedId(t), after.rows[p][r])
    /\ \A q \in PlayerIds : ~InSeq(t, RowsOf(after, q))
    /\ RemoveFirst(after.rows[p][r], TransformedId(t)) = RemoveFirst(b.rows[p][r], t)
    /\ \A u \in Spots : u # <<p, r>> => after.rows[u[1]][u[2]] = b.rows[u[1]][u[2]]
    /\ base_power(TransformedId(t)) = Max(base_power(t), 8)
    /\ BERSERKER \notin CardAbilities(TransformedId(t))
    /\ IsTransformed(TransformedId(t))
    /\ \A x \in SeqRange(after.rows[p][r]) :
           OriginOf(x) = t => BERSERKER \notin CardAbilities(x)
    /\ after.gy = [b.gy EXCEPT ![p] = Append(@, c)]
\* Mardroeme c played by p on a target without Berserker, or on a card
\* that is not on p's rows: no row changes and c goes to p's graveyard
NoTransformLaw(b, after, p, c) ==
    /\ after.rows = b.rows
    /\ after.horn = b.horn
    /\ after.gy = [b.gy EXCEPT ![p] = Append(@, c)]

\* C25, as stated: Mardroeme on a Berserker of the player's rows replaces
\* it on its row by the transformed card (power max(base, 8), no
\* Berserker, marked transformed), the Mardroeme goes to the player's
\* graveyard, and the strength of that row is at least 8; on any other
\* target the rows are unchanged and the Mardroeme goes to the graveyard
MardroemeRowAtLeastEight ==
    [][BoardMardroemeStep =>
          \A res \in {BoardResult} : \A p \in {last'.player} : \A t \in {last'.target} :
              IF BerserkerTarget(Board, p, t)
              THEN \A r \in {RowsHolding(Board, p, t)[1]} :
                       /\ TransformLaw(Board, res.b, p, last'.card, t, r)
                       /\ row_strength(res.b, p, r) >= 8
              ELSE NoTransformLaw(Board, res.b, p, last'.card)]_vars

\* C25, amended: the same, but the strength of the row is at least 8 only
\* when no weather is active on the row; under weather the transformed
\* card counts 1 like any other non-hero unit
MardroemeTransforms ==
    [][BoardMardroemeStep =>
          \A res \in {BoardResult} : \A p \in {last'.player} : \A t \in {last'.target} :
              IF BerserkerTarget(Board, p, t)
              THEN \A r \in {RowsHolding(Board, p, t)[1]} :
                       /\ TransformLaw(Board, res.b, p, last'.card, t, r)
                       /\ ~res.b.wa[p][r] => row_strength(res.b, p, r) >= 8
                       /\ row_strength(res.b, p, r) >= 1
              ELSE NoTransformLaw(Board, res.b, p, last'.card)]_vars
\* the berserker has been transformed next to the soldier on the melee
\* row: the row counts 8 + 5 and the Mardroeme is in the graveyard
MardroemeWitness ==
    /\ last.op = "board.play_card" /\ last.err = ERR_NONE
    /\ last.card = 8 /\ last.target = 9
    /\ Board.rows[Players[1]][MELEE] = <<1, TransformedId(9)>>
    /\ row_strength(Board, Players[1], MELEE) = 13
    /\ Board.gy[Players[1]] = <<8>>

(***************************************************************************)
(* The Horn special (BoardSpec)                                            *)
(***************************************************************************)
BoardHornStep ==
    /\ BoardPlayed
    /\ ~is_unit(last'.card)
    /\ HORN \in CardAbilities(last'.card)
    /\ CardAbilities(last'.card) \cap {WEATHER, SCORCH, DECOY, MARDROEME} = {}
\* what the card at position i adds to the strength of row r of p on b
ValueAt(b, p, r, i) == card_value(b.rows[p][r], b.wa[p][r], b.horn[p][r], b.rows[p][r][i])
\* Horn c played by p on row r of board b: only that row gets the flag,
\* no card moves, c goes to p's graveyard; on a row without horn every
\* non-hero unit counts twice what it counted and every other card the
\* same, on a row with horn the strength stays what it was
HornLaw(b, after, p, c, r) ==
    /\ after.horn = [b.horn EXCEPT ![p][r] = TRUE]
    /\ after.rows = b.rows
    /\ after.gy = [b.gy EXCEPT ![p] = Append(@, c)]
    /\ \A u \in Spots : u # <<p, r>> => row_strength(after, u[1], u[2]) = row_strength(b, u[1], u[2])
    /\ IF b.horn[p][r]
       THEN row_strength(after, p, r) = row_strength(b, p, r)
       ELSE \A i \in 1..Len(b.rows[p][r]) :
                ValueAt(after, p, r, i)
                    = (IF is_unit(b.rows[p][r][i]) /\ ~is_hero(b.rows[p][r][i]) THEN 2 ELSE 1)
                          * ValueAt(b, p, r, i)

\* C26: a Horn special played with target row r sets horn_active on row r
\* of the playing player and on no other row, doubles what every non-hero
\* unit of that row counts, leaves the cards of all rows where they are
\* and goes to the player's graveyard; a second Horn on a row that has
\* horn already leaves the strength of the row unchanged
HornDoublesOneRow ==
    [][BoardHornStep =>
          \A res \in {BoardResult} :
              HornLaw(Board, res.b, last'.player, last'.card, last'.row)]_vars
\* the second Horn has been played on the ranged row where the soldier and
\* geralt lie under the first: the row still counts 2 * 5 + 7
HornWitness ==
    /\ last.op = "board.play_card" /\ last.err = ERR_NONE
    /\ last.card = 30 /\ last.row = RANGED
    /\ Board.gy[Players[1]] = <<18, 30>>
    /\ Board.rows[Players[1]][RANGED] = <<1, 3>>
    /\ Board.horn[Players[1]][RANGED] /\ ~Board.horn[Players[2]][RANGED]
    /\ row_strength(Board, Players[1], RANGED) = 17

(***************************************************************************)
(* Properties of HybridAI.choose_action (Spec)                             *)
(***************************************************************************)
AIStep == last'.op = "choose_action"
AIPlayStep == AIStep /\ last'.err = ERR_NONE /\ last'.card # NoCard

\* C27: HybridAI.choose_action changes nothing in the game: every hand,
\* deck, row, graveyard, weather and horn flag, pass flag, the turn index,
\* the wins, the lives and round_number are after the call what they were
\* before it
AIChangesNothing == [][AIStep => UNCHANGED engine]_vars
\* the AI has chosen to play its berserker while the opponent's soldier
\* lies on the board, and the berserker is still in its hand
AIWitness ==
    /\ last.op = "choose_action" /\ last.err = ERR_NONE
    /\ has_round /\ ~finished
    /\ last.card = 9 /\ InSeq(9, hand[last.player])
    /\ InSeq(1, RowsOf(Board, get_opponent(last.player)))

\* the cards of the match, wherever they are
AllCardsOf(m) ==
    UNION {SeqRange(m.hand[q]) \cup SeqRange(m.deck[q]) \cup SeqRange(m.b.gy[q])
           \cup SeqRange(RowsOf(m.b, q)) : q \in PlayerIds}

\* C28: every Play action that HybridAI.choose_action returns is accepted
\* by Match.play_card in the same state: its card is in the AI player's
\* hand, the call raises nothing and no card of the match is lost
AIActionAccepted ==
    [][AIPlayStep =>
          \A res \in {round_play_card(MatchState, last'.player, last'.card,
                                      last'.row, last'.target)} :
              /\ InSeq(last'.card, hand[last'.player])
              /\ res.err = ERR_NONE
              /\ {OriginOf(x) : x \in AllCardsOf(MatchState)}
                     \subseteq {OriginOf(x) : x \in AllCardsOf(res.m)}]_vars

(***************************************************************************)
(* Lives and the winner of the match (Spec)                                *)
(***************************************************************************)
\* C29: a player with zero lives cannot win the match: Match.match_winner
\* never returns a player whose lives counter is 0, and every lives
\* counter stays within 0..2
ZeroLivesNeverWins ==
    /\ \A p \in PlayerIds : lives[p] \in 0..2
    /\ match_winner(MatchState) # "" => lives[match_winner(MatchState)] > 0

(***************************************************************************)
(* The winner of a round and its crediting (Spec)                          *)
(***************************************************************************)
\* a call of Match.play_card or Match.pass_turn that reached the Round
RoundCallStep ==
    /\ has_round
    /\ last'.err = ERR_NONE
    /\ \/ last'.op = "pass_turn"
       \/ last'.op = "play_card" /\ InSeq(last'.card, hand[last'.player])
\* the target_row arguments the call may have had
RoundCallRows == IF last'.op = "pass_turn" THEN {NoRow} ELSE RowArgs(last'.card)
\* the match as Round.play_card or Round.pass_turn leaves it, before
\* Match._check_round_end
RoundCallResult(tr) ==
    IF last'.op = "pass_turn"
    THEN [m |-> round_pass_turn(MatchState, last'.player), err |-> ERR_NONE]
    ELSE RoundResult(tr)
\* Round.winner() on match m: nobody while the round goes on, then the
\* player whose total is strictly greater, nobody when the totals are equal
WinnerLaw(m) ==
    IF ~m.finished THEN round_winner(m) = ""
    ELSE \A t \in {[p \in PlayerIds |-> total_strength(m.b, p)]} : \A w \in {round_winner(m)} :
             /\ \A p \in PlayerIds : w = p <=> t[p] > t[get_opponent(p)]
             /\ w = "" <=> t[Players[1]] = t[Players[2]]
\* the wins after the call, from the rows of m, the match as the round left it
CreditLaw(m, before, after) ==
    \A t \in {[p \in PlayerIds |-> total_strength(m.b, p)]} :
        after = [p \in PlayerIds |->
                    before[p] + (IF m.finished /\ t[p] > t[get_opponent(p)] THEN 1 ELSE 0)]
\* the call has left the round in progress
StillInProgress == ~finished' /\ round_number' = round_number

\* C30: Round.winner is nobody while the round is in progress and, once it
\* is finished, the player whose total strength is strictly greater, or
\* nobody when the totals are equal; the Match credits the round from the
\* rows as they are when the round finishes, before the cleanup between
\* rounds empties them
RoundCreditedBeforeCleanup ==
    [][RoundCallStep =>
          IF StillInProgress
          THEN wins' = wins /\ WinnerLaw(MatchState')
          ELSE \A tr \in RoundCallRows : \A res \in {RoundCallResult(tr)} :
                   (res.err = ERR_NONE /\ MatchState' = check_round_end(res.m)) =>
                       /\ res.m.finished
                       /\ WinnerLaw(res.m)
                       /\ CreditLaw(res.m, wins, wins')]_vars
\* the first round has been won by P2 and credited; the next round has
\* begun on rows that the cleanup has emptied
RoundCreditWitness ==
    /\ last.round_end /\ last.winner = Players[2] /\ last.started
    /\ round_number = 2 /\ ~finished
    /\ wins = [p \in PlayerIds |-> IF p = Players[2] THEN 1 ELSE 0]
    /\ lives[Players[1]] = 1
    /\ \A p \in PlayerIds : RowsOf(Board, p) = <<>>
    /\ graveyards[Players[2]] # <<>>

(***************************************************************************)
(* Turn advancement (Spec)                                                 *)
(***************************************************************************)
\* player q can act: has not passed and holds a card
CanAct(ps, h, q) == ~ps[q] /\ h[q] # <<>>
\* a call by the active player in a round in progress that returns and
\* leaves the round in progress
TurnStep == RoundCallStep /\ ~finished /\ last'.player = active_player /\ StillInProgress

\* C31: after a play_card or pass_turn of the active player that does not
\* finish the round, the active player has neither passed nor an empty
\* hand: it is the other player when that one has not passed and holds a
\* card, and the same player otherwise; while a round is in progress the
\* active player is never a player who has passed
TurnGoesToAPlayerWhoCanAct ==
    [][/\ TurnStep =>
              /\ CanAct(passed', hand', active_player')
              /\ active_player' = IF CanAct(passed', hand', get_opponent(last'.player))
                                  THEN get_opponent(last'.player) ELSE last'.player
       /\ (has_round' /\ ~finished') => ~passed'[active_player']]_vars
\* P1 has played a card after P2 passed, and it is P1's turn again
TurnWitness ==
    /\ last.op = "play_card" /\ last.err = ERR_NONE /\ last.player = Players[1]
    /\ has_round /\ ~finished /\ ~last.started
    /\ passed[Players[2]] /\ hand[Players[2]] # <<>>
    /\ active_player = Players[1] /\ hand[Players[1]] # <<>>

(***************************************************************************)
(* The passage from one round to the next (Spec)                           *)
(***************************************************************************)
\* a call of the active player that finished a round and began the next
RoundTurnover == RoundCallStep /\ round_number' # round_number
\* the top min(1, size) cards of a deck
TopOne(d) == SubSeq(d, 1, IF d = <<>> THEN 0 ELSE 1)
\* m is the match as the finishing round left it, after is the state given
\* back to the caller
TurnoverLaw(m, after) ==
    /\ \A p \in PlayerIds :
           /\ after.b.gy[p] = m.b.gy[p] \o RowsOf(m.b, p)
           /\ \A r \in BoardRows :
                  /\ after.b.rows[p][r] = <<>>
                  /\ ~after.b.horn[p][r] /\ ~after.b.wa[p][r] /\ ~after.b.aw[r]
           /\ ~after.passed[p]
           /\ after.hand[p] = m.hand[p] \o TopOne(m.deck[p])
           /\ after.hand[p] \o after.deck[p] = m.hand[p] \o m.deck[p]
           /\ after.lives[p] \in {m.lives[p], Max(0, m.lives[p] - 1)}
           /\ after.lives[p] # m.lives[p] => after.wins[get_opponent(p)] = m.wins[get_opponent(p)] + 1
           /\ after.wins[p] \in {m.wins[p], m.wins[p] + 1}
    /\ \E p \in PlayerIds : after.wins[p] = m.wins[p] /\ after.lives[get_opponent(p)] = m.lives[get_opponent(p)]
    /\ after.round_number = m.round_number + 1
    /\ after.has_round /\ ~after.finished /\ after.turn_index = 0

\* C32: when a round finishes without ending the match, the state the
\* caller gets back has every card of the rows of a player's side at the
\* end of that player's graveyard, six empty rows, no horn or weather flag
\* and no active weather, no passed flag, min(1, deck size) cards drawn by
\* each player and round_number one higher; but for the credit of the
\* round the wins and lives are unchanged, and so is leader_used
RoundTurnoverCleans ==
    [][RoundTurnover =>
          /\ leader_used' = leader_used
          /\ \A tr \in RoundCallRows : \A res \in {RoundCallResult(tr)} :
                 (res.err = ERR_NONE /\ MatchState' = check_round_end(res.m)) =>
                     TurnoverLaw(res.m, MatchState')]_vars
\* the second round has begun: P2's field medic went to P2's graveyard, P1
\* has drawn the only card of its deck
TurnoverWitness ==
    /\ last.started /\ last.round_end /\ last.op = "play_card"
    /\ round_number = 2 /\ has_round /\ ~finished
    /\ hand[Players[1]] = <<12, 10, 13>> /\ deck[Players[1]] = <<>>
    /\ graveyards[Players[2]] = <<11>>
    /\ \A p \in PlayerIds : \A r \in BoardRows : rows[p][r] = <<>> /\ ~horn_active[p][r]

(***************************************************************************)
(* HybridAI.choose_action as a function of the position: the positions are *)
(* drawn from hands, rows and standings of a match in progress, and the    *)
(* call is made for the player whose turn it is.                           *)
(***************************************************************************)
MkRows(m1, r1, s1, m2, r2, s2) ==
    [p \in PlayerIds |->
        [r \in BoardRows |->
            IF p = "P1" THEN (IF r = MELEE THEN m1 ELSE IF r = RANGED THEN r1 ELSE s1)
            ELSE (IF r = MELEE THEN m2 ELSE IF r = RANGED THEN r2 ELSE s2)]]
AIRows ==
    { MkRows(<<>>, <<>>, <<>>, <<>>, <<>>, <<>>),
      MkRows(<<1, 3>>, <<>>, <<>>, <<>>, <<>>, <<>>),
      MkRows(<<>>, <<2>>, <<>>, <<14>>, <<>>, <<>>),
      MkRows(<<3>>, <<>>, <<>>, <<>>, <<17>>, <<>>),
      MkRows(<<15, 16>>, <<>>, <<22>>, <<12>>, <<>>, <<>>),
      MkRows(<<29>>, <<>>, <<>>, <<14>>, <<>>, <<>>) }
AIHands ==
    { <<>>, <<7>>, <<1, 20, 3>>, <<6, 23, 2>>, <<18, 9, 10>>, <<4, 11, 1, 2, 21>>,
      <<8, 19>>, <<2, 1, 9, 21>> }
OpponentHands == { <<>>, <<13, 25>>, <<5, 26>> }
\* round_number, wins and lives of the two players at the start of a round
\* (match.py 41-57)
MkStanding(n, w1, w2, l1, l2) ==
    [round_number |-> n,
     wins |-> [p \in PlayerIds |-> IF p = "P1" THEN w1 ELSE w2],
     lives |-> [p \in PlayerIds |-> IF p = "P1" THEN l1 ELSE l2]]
Standings ==
    { MkStanding(1, 0, 0, 2, 2),
      MkStanding(2, 0, 0, 2, 2), MkStanding(2, 1, 0, 2, 1), MkStanding(2, 0, 1, 1, 2),
      MkStanding(3, 0, 0, 2, 2), MkStanding(3, 1, 0, 2, 1), MkStanding(3, 0, 1, 1, 2),
      MkStanding(3, 1, 1, 1, 1) }
\* no card is in two places
Apart(h1, h2, rs) ==
    /\ SeqRange(h1) \cap SeqRange(h2) = {}
    /\ \A p \in PlayerIds : \A r \in BoardRows :
           SeqRange(rs[p][r]) \cap (SeqRange(h1) \cup SeqRange(h2)) = {}

\* a Match in a round in progress (match.py 13-27, round.py 13-17), the
\* decks registered as the UIs do (text_ui.py 299-301)
AIInit ==
    \E h1 \in AIHands : \E h2 \in OpponentHands : \E rs \in AIRows : \E st \in Standings :
    \E t \in 0..1 :
        /\ Apart(h1, h2, rs)
        /\ deal = MkDeal(h1, <<>>, NoLeader, h2, <<>>, NoLeader)
        /\ hand = deal.hand
        /\ deck = [p \in PlayerIds |-> <<>>]
        /\ passed = [p \in PlayerIds |-> FALSE]
        /\ leader_used = [p \in PlayerIds |-> FALSE]
        /\ rows = rs
        /\ horn_active = [p \in PlayerIds |-> [r \in BoardRows |-> FALSE]]
        /\ weather_active = [p \in PlayerIds |-> [r \in BoardRows |-> FALSE]]
        /\ active_weather = [r \in BoardRows |-> FALSE]
        /\ decks = [p \in PlayerIds |-> hand[p] \o RowsOf([rows |-> rs], p)]
        /\ graveyards = [p \in PlayerIds |-> <<>>]
        /\ avenged = {}
        /\ trow = [c \in TransformedIds |-> NoRow]
        /\ round_number = st.round_number
        /\ wins = st.wins
        /\ lives = st.lives
        /\ has_round = TRUE
        /\ turn_index = t
        /\ finished = FALSE
        /\ last = NoCall
AINext == \E p \in Actors : ChooseAction(p)
AISpec == AIInit /\ [][AINext]_vars

(***************************************************************************)
(* Properties of the choice of HybridAI (AISpec)                           *)
(***************************************************************************)
\* a call of choose_action that returned an Action
AIChoice == AIStep /\ last'.err = ERR_NONE /\ has_round
\* the lead of player me, and whether me is behind in lives in round 2 or 3
LeadOf(me) == total_strength(Board, me) - total_strength(Board, get_opponent(me))
BehindInLives(me) == lives[me] < lives[get_opponent(me)] /\ round_number \in {2, 3}
\* the cards of the candidate plays of player me
CandidateCards(me) ==
    {generate_candidate_actions(MatchState, me)[i].card :
         i \in 1..Len(generate_candidate_actions(MatchState, me))}

\* C33: with at least one candidate play, a lead of at least 10 and the AI
\* not behind in lives in round 2 or 3, choose_action returns Pass; with a
\* lead below 10, or behind in lives in round 2 or 3, the immediate pass is
\* not taken and a candidate is returned
ImmediatePassRule ==
    [][AIChoice =>
          \A me \in {last'.player} : \A cs \in {CandidateCards(me)} : \A lead \in {LeadOf(me)} :
              cs # {} =>
                  /\ (lead >= 10 /\ ~BehindInLives(me)) => last'.card = NoCard
                  /\ (lead < 10 \/ BehindInLives(me)) => last'.card \in cs]_vars
\* P1 leads by 12 with two Scorches and an archer in hand, and passes
ImmediatePassWitness ==
    /\ last.op = "choose_action" /\ last.err = ERR_NONE /\ last.player = Players[1]
    /\ last.card = NoCard
    /\ hand[Players[1]] = <<6, 23, 2>>
    /\ total_strength(Board, Players[1]) - total_strength(Board, Players[2]) = 12
    /\ round_number = 2 /\ lives[Players[1]] = 2

\* the candidates that choose_action scores for player me
ScoredActions(me) == Append(generate_candidate_actions(MatchState, me), PassAction)
\* the match after Action a of player me has been applied by the resolver:
\* the card has left the hand and Board.play_card has run
Applied(m, me, a) ==
    IF a.kind = "pass" THEN m
    ELSE [play_from_hand(m, me, a.card)
             EXCEPT !.b = play_card(m.b, me, a.card, a.target_row, a.target_unit).b]

\* C34: the score the AI gives to a candidate is the weighted combination
\* computed on the state that results from applying the candidate with the
\* resolver: the totals and the card counts are those after the card has
\* left the hand and taken effect on the board
ScoreOfResultingState ==
    [][AIChoice =>
          \A me \in {last'.player} : \A as \in {ScoredActions(me)} : \A i \in 1..Len(as) :
              evaluate_after_action(MatchState, me, get_opponent(me), as[i])
                  = evaluate_after_action(Applied(MatchState, me, as[i]), me,
                                          get_opponent(me), as[i])]_vars

\* the place of the unit at position i of u when u is sorted by power, the
\* units of equal power staying in the order of the hand
RankIn(u, i) ==
    1 + Cardinality({j \in 1..Len(u) : base_power(u[j]) < base_power(u[i])})
      + Cardinality({j \in 1..(i - 1) : base_power(u[j]) = base_power(u[i])})
Ranked(u, k) == u[CHOOSE i \in 1..Len(u) : RankIn(u, i) = k]
\* the cards the AI looks at, in order: the specials in hand order, then
\* the weakest, the median and the strongest of the other cards
LookedAt(h) ==
    \A sp \in {SelectSeq(h, AISpecial)} : \A u \in {SelectSeq(h, LAMBDA c : ~AISpecial(c))} :
        Considered(h)
            = sp \o (IF u = <<>> THEN <<>> ELSE <<Ranked(u, 1)>>)
                 \o (IF Len(u) > 2 THEN <<Ranked(u, (Len(u) \div 2) + 1)>> ELSE <<>>)
                 \o (IF Len(u) > 1 THEN <<Ranked(u, Len(u))>> ELSE <<>>)
\* the score of the Action a for player me
ScoreFor(me, a) == evaluate_after_action(MatchState, me, get_opponent(me), a)
\* what the call recorded in last' is the k-th of the Actions as
ReturnedIs(as, k) ==
    /\ last'.card = as[k].card
    /\ last'.row = as[k].target_row
    /\ last'.target = as[k].target_unit
\* the candidates of the cards h taken in this order, one after the other
RECURSIVE ActionsOf(_, _, _)
ActionsOf(b, me, h) ==
    IF h = <<>> THEN <<>> ELSE card_actions(b, me, Head(h)) \o ActionsOf(b, me, Tail(h))

\* C35: choose_action is a function of the position: when the candidates
\* are evaluated it returns the one with the highest score and, among
\* equal scores, the one generated first, the candidates being generated
\* for the specials in hand order, then the weakest, the median and the
\* strongest unit, then Pass
FirstBestCandidate ==
    [][AIChoice =>
          \A me \in {last'.player} : \A as \in {ScoredActions(me)} :
              /\ LookedAt(hand[me])
              /\ as = Append(ActionsOf(Board, me, Considered(hand[me])), PassAction)
              /\ (Len(as) > 1 /\ ~should_consider_immediate_pass(MatchState, me)) =>
                     \E k \in 1..Len(as) :
                         /\ ReturnedIs(as, k)
                         /\ \A j \in 1..Len(as) : ScoreFor(me, as[j]) <= ScoreFor(me, as[k])
                         /\ \A j \in 1..(k - 1) : ScoreFor(me, as[j]) < ScoreFor(me, as[k])]_vars
\* of two Scorches of equal score the first of the hand is returned
FirstBestWitness ==
    /\ last.op = "choose_action" /\ last.err = ERR_NONE /\ last.player = Players[1]
    /\ hand[Players[1]] = <<6, 23, 2>>
    /\ last.card = 6
\* of four units of equal score the weakest is returned
WeakestFirstWitness ==
    /\ last.op = "choose_action" /\ last.err = ERR_NONE /\ last.player = Players[1]
    /\ hand[Players[1]] = <<2, 1, 9, 21>>
    /\ last.card = 9

\* C40: choose_action returns Pass only when the AI player has no
\* candidate play or when the immediate-pass condition holds (a lead of
\* at least 10 while not behind in lives in round 2 or 3); in every other
\* position it returns a Play, because Pass is scored last and never
\* scores strictly more than a play
PassOnlyWithoutChoice ==
    [][AIChoice =>
          \A me \in {last'.player} :
              last'.card = NoCard
                  <=> \/ CandidateCards(me) = {}
                      \/ LeadOf(me) >= 10 /\ ~BehindInLives(me)]_vars
\* with a soldier, an agile unit and geralt in hand on an empty board the
\* AI plays the agile unit, whose score is that of Pass
PlayOverPassWitness ==
    /\ last.op = "choose_action" /\ last.err = ERR_NONE /\ last.player = Players[1]
    /\ hand[Players[1]] = <<1, 20, 3>>
    /\ \A p \in PlayerIds : RowsOf(Board, p) = <<>>
    /\ last.card = 20
    /\ evaluate_after_action(MatchState, Players[1], Players[2], PlayAction(20, MELEE, NoCard))
           = evaluate_after_action(MatchState, Players[1], Players[2], PassAction)

(***************************************************************************)
(* The leader (Spec)                                                       *)
(***************************************************************************)
LeaderStep == last'.op = "leader"

\* C36: leader_used of a player becomes true only by an activation of that
\* player whose effect was applied; an unrecognized ability text changes
\* neither the board nor leader_used; no step, start_round and the passage
\* to the next round included, sets leader_used back to false; once it is
\* true an activation of that player leaves the board as it is
LeaderUsedOnce ==
    [][/\ \A p \in PlayerIds :
              /\ leader_used[p] => leader_used'[p]
              /\ (leader_used'[p] /\ ~leader_used[p]) =>
                     LeaderStep /\ last'.player = p /\ last'.applied
       /\ (LeaderStep /\ deal.leader[last'.player] = Unrecognized) =>
              Board' = Board /\ leader_used' = leader_used /\ ~last'.applied
       /\ (LeaderStep /\ leader_used[last'.player]) =>
              Board' = Board /\ ~last'.applied]_vars
\* in the second round a player whose leader was used in the first asks
\* for it again, and nothing happens
LeaderWitness ==
    /\ last.op = "leader" /\ ~last.applied
    /\ leader_used[last.player]
    /\ round_number = 2 /\ has_round /\ ~finished

(***************************************************************************)
(* The rounds of a match (Spec)                                            *)
(***************************************************************************)
\* C37: in every state between the calls, once the first round has been
\* started, round_number is between 1 and 3 and the current round is
\* finished only when the match is over (a player has two wins, or it is
\* round 3): a finished round of a match that goes on has been replaced by
\* a round in progress within the call that finished it
FinishedOnlyWhenOver ==
    has_round =>
        /\ round_number \in 1..3
        /\ finished => (\E p \in PlayerIds : wins[p] >= 2) \/ round_number = 3
\* the third round is finished and nobody has two wins
ThirdRoundWitness ==
    /\ has_round /\ finished /\ round_number = 3
    /\ \A p \in PlayerIds : wins[p] < 2

(***************************************************************************)
(* The horn of a row within a round (BoardSpec)                            *)
(***************************************************************************)
\* a step other than the cleanup between two rounds
WithinRound == last'.op # "board.cleanup"
\* every non-hero unit of row r of p counts twice what it would count
\* without the horn
RowDoubled(b, p, r) ==
    \A i \in 1..Len(b.rows[p][r]) : \A x \in {b.rows[p][r][i]} :
        (is_unit(x) /\ ~is_hero(x)) =>
            card_value(b.rows[p][r], b.wa[p][r], b.horn[p][r], x)
                = 2 * card_value(b.rows[p][r], b.wa[p][r], FALSE, x)

\* C38: within a round horn_active of a row never goes from true to
\* false, whether a Horn special, a leader or a unit with the Horn ability
\* has set it, and also after that unit has left the row through Scorch
\* or Decoy: the non-hero units of the row stay doubled
HornStaysWithinRound ==
    [][WithinRound =>
          \A u \in Spots :
              horn_active[u[1]][u[2]] =>
                  /\ horn_active'[u[1]][u[2]]
                  /\ RowDoubled(Board', u[1], u[2])]_vars
\* dandelion has set the horn of the ranged row and has been scorched; the
\* banner it left behind still counts 2
HornStaysWitness ==
    /\ last.op = "board.play_card" /\ last.err = ERR_NONE /\ last.card = 6
    /\ InSeq(19, graveyards[Players[1]])
    /\ rows[Players[1]][RANGED] = <<17>>
    /\ horn_active[Players[1]][RANGED]
    /\ row_strength(Board, Players[1], RANGED) = 2

(***************************************************************************)
(* Progress of a match                                                     *)
(***************************************************************************)
\* the cards player p can still play: hand and Player.deck
Stock(h, d, p) == Len(h[p]) + Len(d[p])
\* a Match.play_card that returned
PlayedStep == RoundPlayStep /\ last'.err = ERR_NONE
IsDecoy(c) == ~is_unit(c) /\ DECOY \in CardAbilities(c) /\ CardAbilities(c) \cap {WEATHER, SCORCH} = {}
\* every Match.play_card that returns, of a card other than a Decoy, takes
\* exactly one card from the hand and deck of the player; no other step,
\* the draw between two rounds included, changes the size of anybody's
\* hand and deck together
StockLaw ==
    /\ (PlayedStep /\ ~IsDecoy(last'.card)) =>
           /\ Stock(hand', deck', last'.player) = Stock(hand, deck, last'.player) - 1
           /\ Stock(hand', deck', get_opponent(last'.player))
                  = Stock(hand, deck, get_opponent(last'.player))
    /\ last'.op \in {"pass_turn", "start_round", "leader", "choose_action", "register"} =>
           \A p \in PlayerIds : Stock(hand', deck', p) = Stock(hand, deck, p)
StockDecreases == [][StockLaw]_vars

\* a turn can be taken: a round is in progress (pass_turn is then open to
\* the active player, so this is when TakeTurn is enabled)
TurnPossible == has_round /\ ~finished /\ \A q \in PlayerIds : wins[q] < MaxWins
\* a turn taken: the active player of a round in progress plays a card or
\* passes, and the call returns
TakeTurn ==
    /\ last'.op \in {"play_card", "pass_turn"} /\ last'.err = ERR_NONE
    /\ has_round /\ ~finished
\* weak fairness of TakeTurn, with its enabling condition written out
TurnsAreTaken == []<>(~TurnPossible) \/ []<><<TakeTurn>>_vars
\* The match as the drivers run it (text_ui.py 168-215, visual_ui.py
\* 1093-1150): start_round is called, and then on every turn the active
\* player ends up playing a card or passing
FairSpec == Init /\ [][Next]_vars /\ WF_vars(StartRound) /\ TurnsAreTaken

MatchIsOver == has_round /\ finished /\ match_over(MatchState)
RoundInProgress(n) == has_round /\ ~finished /\ round_number = n

\* C39: hand and deck together are a measure of progress: a Match.play_card
\* that returns, of a card other than a Decoy, takes exactly one card from
\* the hand and deck of the player (a Spy draws from the deck into the
\* hand, a Medic and a Muster add nothing to the hand), and neither a pass
\* nor the draw between two rounds changes the sum; so when on every turn
\* the active player plays a card or passes, every round in progress comes
\* to its end and the match is eventually over, and stays over
MatchTerminates ==
    /\ StockDecreases
    /\ \A n \in 1..3 : RoundInProgress(n) ~> (round_number # n \/ finished)
    /\ <>[]MatchIsOver
\* a Spy was played in a match that went on: one card left the hand, two
\* came from the deck
SpyStockWitness ==
    /\ last.op = "play_card" /\ last.err = ERR_NONE /\ last.card = 10
    /\ last.player = Players[1]
    /\ deal.hand[Players[1]] = <<10>> /\ deal.deck[Players[1]] = <<1, 2>>
    /\ Len(hand[Players[1]]) = 2 /\ deck[Players[1]] = <<>>

====
